---------------------------- MODULE BleNusProofs ----------------------------
(***************************************************************************)
(* Proofs about BleNus, for every number of relays, every size of ring,    *)
(* message and notification, and any number of inputs.                     *)
(***************************************************************************)
EXTENDS BleNus, SequenceTheorems, TLAPS

(* What RINGBUF_Put does to the ring: a sequence of bytes that still fits.  *)
LEMMA PutType ==
  ASSUME NEW r \in Seq(Bytes), Len(r) <= RingCap, NEW s \in Seq(Bytes)
  PROVE  Put(r, s) \in Seq(Bytes) /\ Len(Put(r, s)) <= RingCap
<1> DEFINE room == RingCap - Len(r)
           n == IF Len(s) <= room THEN Len(s) ELSE room
           p == SubSeq(s, 1, n)
<1>1. n \in 0..Len(s) /\ n <= room
  BY BleNusAssumption, LenProperties
<1>2. p \in Seq(Bytes) /\ Len(p) = n
  BY <1>1, SubSeqProperties
<1>3. r \o p \in Seq(Bytes) /\ Len(r \o p) = Len(r) + n
  BY <1>2, ConcatProperties
<1>4. Put(r, s) = r \o p
  BY DEF Put
<1> QED
  BY <1>1, <1>3, <1>4, BleNusAssumption, LenProperties

(* A frame is a sequence of bytes.                                          *)
LEMMA FrameType ==
  ASSUME NEW m \in Messages, NEW n \in Nat
  PROVE  /\ Frame(m, n) \in Seq(Bytes)
         /\ Len(Frame(m, n)) = n + 4
<1>1. Header + n + 1 \in Nat /\ Header + n + 1 = n + 4
  BY DEF Header
<1>2. \A i \in 1..(Header + n + 1) :
         Byte(m, IF i = Header + n + 1 THEN Crc ELSE i) \in Bytes
  BY <1>1 DEF Byte, Bytes, Crc, Header
<1> QED
  BY <1>1, <1>2 DEF Frame

(* A chunk is a prefix of the ring, and the rest of the ring is what stays.  *)
LEMMA ChunkType ==
  ASSUME ring \in Seq(Bytes), Len(ring) <= RingCap
  PROVE  /\ Chunk \in Seq(Bytes)
         /\ Len(Chunk) <= Len(ring)
         /\ SubSeq(ring, Len(Chunk) + 1, Len(ring)) \in Seq(Bytes)
         /\ Len(SubSeq(ring, Len(Chunk) + 1, Len(ring))) <= RingCap
<1> DEFINE n == IF Len(ring) <= Mtu THEN Len(ring) ELSE Mtu
<1>1. n \in 0..Len(ring)
  BY BleNusAssumption, LenProperties
<1>2. Chunk = SubSeq(ring, 1, n)
  BY DEF Chunk
<1>3. Chunk \in Seq(Bytes) /\ Len(Chunk) = n
  BY <1>1, <1>2, SubSeqProperties
<1>4. SubSeq(ring, Len(Chunk) + 1, Len(ring)) \in Seq(Bytes)
      /\ Len(SubSeq(ring, Len(Chunk) + 1, Len(ring))) <= Len(ring)
  <2>1. \A i \in (n + 1)..Len(ring) : ring[i] \in Bytes
    BY <1>1, LenProperties
  <2> QED
    BY <1>1, <1>3, <2>1, SubSeqProperties, LenProperties
<1> QED
  BY <1>1, <1>3, <1>4, BleNusAssumption, LenProperties

-----------------------------------------------------------------------------
(* Type correctness: every variable keeps its range under every handler and *)
(* every step of the main loop.                                             *)
LEMMA InitTypeOK == Init => TypeOK
<1> SUFFICES ASSUME Init PROVE TypeOK
  OBVIOUS
<1> USE BleNusAssumption DEF Init
<1>1. AllOff \in RelayValues
  BY DEF AllOff, RelayValues, Bit
<1>2. IoTypeOK
  BY <1>1 DEF IoTypeOK
<1>3. SlotTypeOK
  BY <1>1 DEF SlotTypeOK
<1>4. TxTypeOK
  <2>1. ring \in Seq(Bytes) /\ Len(ring) <= RingCap
    BY EmptySeq
  <2>2. left \in 0..SendTicks /\ inflight \in 0..TxBuffers
    OBVIOUS
  <2>3. xferDone \in BOOLEAN /\ link \in {"down", "up", "notify"}
    OBVIOUS
  <2> QED
    BY <2>1, <2>2, <2>3 DEF TxTypeOK
<1>5. LoopTypeOK
  BY EmptySeq DEF LoopTypeOK, MainLabels
<1>6. CountTypeOK
  BY DEF CountTypeOK
<1> QED
  BY <1>2, <1>3, <1>4, <1>5, <1>6 DEF TypeOK

(* Relays and flags: only a command, a button press and a report handed to *)
(* the SoftDevice write anything but a Boolean constant here.               *)
LEMMA IoTypeStep ==
  ASSUME TypeOK, Next
  PROVE  IoTypeOK'
<1> USE DEF TypeOK, IoTypeOK
<1>1. CASE \E r \in Relays, v \in Bit : Command(r, v)
  BY <1>1 DEF Command, RelayValues, mainVars, history
<1>2. CASE \E S \in (SUBSET Buttons) \ {{}} : Press(S)
  <2>1. PICK S \in SUBSET Buttons : Press(S)
    BY <1>2
  <2>2. \A r \in Relays : relay[r] \in Bit
    BY DEF RelayValues
  <2>3. \A r \in Relays : (IF r \in S THEN 1 - relay[r] ELSE relay[r]) \in Bit
    BY <2>2 DEF Bit
  <2>4. relay' \in RelayValues
    BY <2>1, <2>3 DEF Press, RelayValues
  <2> QED
    BY <2>1, <2>4 DEF Press, mainVars, history
<1>3. CASE TxDrain
  <2>1. shown' \in RelayValues
    <3>1. ASSUME NEW i \in ReportEnds(Chunk)
          PROVE  Chunk[i].of \in RelayValues
      <4>1. Chunk \in Seq(Bytes)
        BY ChunkType DEF TxTypeOK
      <4>2. Chunk[i] \in Bytes /\ Chunk[i].of \notin RespKinds
        BY <4>1, <3>1 DEF ReportEnds
      <4> QED
        BY <4>2 DEF Bytes, Messages
    <3> QED
      BY <1>3, <3>1 DEF TxDrain
  <2>2. lost' \in BOOLEAN
    BY <1>3 DEF TxDrain
  <2>3. UNCHANGED <<relay, reportFlag, dirty>>
    BY <1>3 DEF TxDrain
  <2> QED
    BY <2>1, <2>2, <2>3
<1>4. CASE \/ StatusRequest \/ (\E k \in RespKinds : Request(k)) \/ Tick
           \/ (\E n \in 1..inflight : TxComplete(n)) \/ Connect
           \/ (\E on \in BOOLEAN : SetNotify(on)) \/ Disconnect
  BY <1>4 DEF StatusRequest, Request, Tick, TxComplete, Connect, SetNotify,
              Disconnect, history
<1>5. CASE \/ SendTest \/ SendCopy \/ SendClear \/ PutReportData \/ FlagTest
           \/ FlagClear
  BY <1>5 DEF SendTest, SendCopy, SendClear, PutReportData, FlagTest, FlagClear,
              history
<1>6. CASE ReadRelay \/ PutReport \/ TxCheck \/ TxMark \/ TxArm
  BY <1>6 DEF ReadRelay, PutReport, TxCheck, TxMark, TxArm, history
<1> HIDE DEF TypeOK, IoTypeOK
<1> QED
  BY <1>1, <1>2, <1>3, <1>4, <1>5, <1>6 DEF Next, MainStep, Handlers

(* The two slots: a request and the report being composed write a length    *)
(* the protocol has, everything else clears or keeps it.                    *)
LEMMA SlotTypeStep ==
  ASSUME TypeOK, Next
  PROVE  SlotTypeOK'
<1> USE BleNusAssumption DEF TypeOK, SlotTypeOK
<1>1. CASE \E k \in RespKinds : Request(k)
  BY <1>1 DEF Request
<1>2. CASE SendClear
  BY <1>2 DEF SendClear
<1>3. CASE PutReportData
  BY <1>3 DEF PutReportData
<1>4. CASE PutReport
  <2>1. tmp \in RelayValues
    BY <1>4 DEF PutReport, LoopTypeOK, RelayValues, Relays
  <2> QED
    BY <1>4, <2>1 DEF PutReport
<1>5. CASE \/ (\E r \in Relays, v \in Bit : Command(r, v)) \/ StatusRequest
           \/ (\E S \in (SUBSET Buttons) \ {{}} : Press(S)) \/ Tick
           \/ (\E n \in 1..inflight : TxComplete(n)) \/ Connect
           \/ (\E on \in BOOLEAN : SetNotify(on)) \/ Disconnect
  BY <1>5 DEF Command, StatusRequest, Press, Tick, TxComplete, Connect,
              SetNotify, Disconnect
<1>6. CASE \/ SendTest \/ SendCopy \/ FlagTest \/ FlagClear \/ ReadRelay
           \/ TxCheck \/ TxDrain \/ TxMark \/ TxArm
  BY <1>6 DEF SendTest, SendCopy, FlagTest, FlagClear, ReadRelay, TxCheck,
              TxDrain, TxMark, TxArm
<1> HIDE DEF TypeOK, SlotTypeOK
<1> QED
  BY <1>1, <1>2, <1>3, <1>4, <1>5, <1>6 DEF Next, MainStep, Handlers

(* The ring, the guard and the SoftDevice's buffers.                        *)
LEMMA TxTypeStep ==
  ASSUME TypeOK, Next
  PROVE  TxTypeOK'
<1> USE BleNusAssumption DEF TypeOK, TxTypeOK
<1>1. CASE \/ (\E r \in Relays, v \in Bit : Command(r, v))
           \/ StatusRequest \/ (\E k \in RespKinds : Request(k))
           \/ \E S \in (SUBSET Buttons) \ {{}} : Press(S)
  BY <1>1 DEF Command, StatusRequest, Request, Press
<1>2. CASE Tick \/ \E n \in 1..inflight : TxComplete(n)
  <2>1. UNCHANGED <<ring, link>> /\ xferDone' \in BOOLEAN
    BY <1>2 DEF Tick, TxComplete
  <2>2. left' \in 0..SendTicks /\ inflight' \in 0..TxBuffers
    BY <1>2 DEF Tick, TxComplete
  <2> QED
    BY <2>1, <2>2
<1>3. CASE Connect \/ (\E on \in BOOLEAN : SetNotify(on)) \/ Disconnect
  <2>1. /\ UNCHANGED <<ring, left>>
        /\ xferDone' \in BOOLEAN
        /\ link' \in {"down", "up", "notify"}
    BY <1>3 DEF Connect, SetNotify, Disconnect
  <2>2. inflight' \in 0..TxBuffers
    BY <1>3 DEF Connect, SetNotify, Disconnect
  <2> QED
    BY <2>1, <2>2
<1>4. CASE SendCopy
  <2>1. PICK b \in Seq(Bytes) : ring' = Put(ring, b)
    <3> DEFINE b == <<Byte(send.msg,
                          IF idx <= Header + send.len THEN idx ELSE Crc)>>
    <3>1. b \in Seq(Bytes)
      BY DEF SlotTypeOK, LoopTypeOK, Byte, Bytes, Messages, Crc
    <3>2. ring' = Put(ring, b)
      BY <1>4 DEF SendCopy
    <3> QED
      BY <3>1, <3>2
  <2>2. ring' \in Seq(Bytes) /\ Len(ring') <= RingCap
    BY <2>1, PutType
  <2> QED
    BY <1>4, <2>2 DEF SendCopy
<1>5. CASE PutReportData
  <2>1. PICK f \in Seq(Bytes) : ring' = Put(ring, f)
    <3> DEFINE f == IF report.len = 0 THEN <<>>
                                      ELSE Frame(report.msg, report.len)
    <3>1. report.msg \in Messages /\ report.len \in Nat
      BY DEF SlotTypeOK, Messages
    <3>2. f \in Seq(Bytes)
      BY <3>1, FrameType, EmptySeq
    <3>3. ring' = Put(ring, f)
      BY <1>5 DEF PutReportData
    <3> QED
      BY <3>2, <3>3
  <2>2. ring' \in Seq(Bytes) /\ Len(ring') <= RingCap
    BY <2>1, PutType
  <2> QED
    BY <1>5, <2>2 DEF PutReportData
<1>6. CASE TxDrain
  <2>1. ring' \in Seq(Bytes) /\ Len(ring') <= RingCap
    BY <1>6, ChunkType DEF TxDrain
  <2>2. xferDone' \in BOOLEAN
    BY <1>6 DEF TxDrain
  <2>3. inflight' \in 0..TxBuffers
    BY <1>6 DEF TxDrain, Accepted
  <2>4. UNCHANGED <<left, link>>
    BY <1>6 DEF TxDrain
  <2> QED
    BY <2>1, <2>2, <2>3, <2>4
<1>7. CASE \/ SendTest \/ SendClear \/ FlagTest \/ FlagClear \/ ReadRelay
           \/ PutReport
  BY <1>7 DEF SendTest, SendClear, FlagTest, FlagClear, ReadRelay, PutReport
<1>8. CASE TxCheck \/ TxMark \/ TxArm
  <2>1. UNCHANGED <<ring, link, inflight>> /\ xferDone' \in BOOLEAN
    BY <1>8 DEF TxCheck, TxMark, TxArm
  <2>2. left' \in 0..SendTicks
    BY <1>8 DEF TxCheck, TxMark, TxArm
  <2> QED
    BY <2>1, <2>2
<1> HIDE DEF TypeOK, TxTypeOK
<1> QED
  BY <1>1, <1>2, <1>3, <1>4, <1>5, <1>6, <1>7, <1>8
     DEF Next, MainStep, Handlers

(* Where the main loop stands: handlers never move it, and it reads a relay *)
(* only while one is left to read.                                          *)
LEMMA LoopTypeStep ==
  ASSUME TypeOK, Next
  PROVE  LoopTypeOK'
<1> USE BleNusAssumption DEF TypeOK, LoopTypeOK, MainLabels
<1>1. CASE Handlers
  BY <1>1 DEF Handlers, Command, StatusRequest, Request, Press, Tick,
              TxComplete, Connect, SetNotify, Disconnect, mainVars
<1>2. CASE \/ SendTest \/ SendCopy \/ SendClear \/ PutReportData \/ FlagTest
  BY <1>2 DEF SendTest, SendCopy, SendClear, PutReportData, FlagTest, Goto
<1>3. CASE FlagClear
  BY <1>3, EmptySeq DEF FlagClear, Goto
<1>4. CASE ReadRelay
  <2>1. relay[Len(tmp) + 1] \in Bit
    BY <1>4 DEF ReadRelay, IoTypeOK, RelayValues, Relays
  <2>2. tmp' \in Seq(Bit) /\ Len(tmp') = Len(tmp) + 1
    BY <1>4, <2>1, AppendProperties DEF ReadRelay
  <2> QED
    BY <1>4, <2>2 DEF ReadRelay, Goto
<1>5. CASE PutReport
  BY <1>5, EmptySeq DEF PutReport, Goto
<1>6. CASE TxCheck \/ TxDrain \/ TxMark \/ TxArm
  BY <1>6 DEF TxCheck, TxDrain, TxMark, TxArm, Goto
<1> QED
  BY <1>1, <1>2, <1>3, <1>4, <1>5, <1>6 DEF Next, MainStep

LEMMA CountTypeStep ==
  ASSUME TypeOK, Next
  PROVE  CountTypeOK'
<1> USE BleNusAssumption DEF TypeOK, CountTypeOK
<1>1. CASE Handlers
  BY <1>1 DEF Handlers, Command, StatusRequest, Request, Press, Tick,
              TxComplete, Connect, SetNotify, Disconnect, Input, history
<1>2. CASE MainStep
  BY <1>2 DEF MainStep, SendTest, SendCopy, SendClear, PutReportData, FlagTest,
              FlagClear, ReadRelay, PutReport, TxCheck, TxDrain, TxMark, TxArm,
              history
<1> QED
  BY <1>1, <1>2 DEF Next

LEMMA StutterTypeOK ==
  ASSUME TypeOK, UNCHANGED vars
  PROVE  TypeOK'
BY DEF TypeOK, IoTypeOK, SlotTypeOK, TxTypeOK, LoopTypeOK, CountTypeOK, vars,
       mainVars, history

(* Every variable keeps its range in every reachable state (the ring never  *)
(* holds more than its capacity, the SoftDevice never more than its         *)
(* buffers), whatever the order of handlers and main-loop steps.            *)
THEOREM TypeCorrect == Spec => []TypeOK
<1>1. TypeOK /\ [Next]_vars => TypeOK'
  BY IoTypeStep, SlotTypeStep, TxTypeStep, LoopTypeStep, CountTypeStep,
     StutterTypeOK DEF TypeOK
<1> QED
  BY <1>1, InitTypeOK, PTL DEF Spec

-----------------------------------------------------------------------------
(* The report path.  NoUnreportedChange is inductive once the types are      *)
(* known: a handler that changes a relay sets the flag, and clearing the     *)
(* flag starts a reading that has passed no relay yet.                       *)
LEMMA ReportStep ==
  ASSUME TypeOK, NoUnreportedChange, Next
  PROVE  NoUnreportedChange'
<1> USE DEF NoUnreportedChange
<1>1. CASE \/ (\E r \in Relays, v \in Bit : Command(r, v)) \/ StatusRequest
           \/ \E S \in (SUBSET Buttons) \ {{}} : Press(S)
  BY <1>1 DEF Command, StatusRequest, Press
<1>2. CASE \/ (\E k \in RespKinds : Request(k)) \/ Tick
           \/ (\E n \in 1..inflight : TxComplete(n)) \/ Connect
           \/ (\E on \in BOOLEAN : SetNotify(on)) \/ Disconnect
  BY <1>2 DEF Request, Tick, TxComplete, Connect, SetNotify, Disconnect,
              mainVars
<1>3. CASE FlagClear
  BY <1>3 DEF FlagClear, Goto
<1>4. CASE ReadRelay
  <2>1. SUFFICES ASSUME ~reportFlag
                 PROVE  \A r \in 1..Len(tmp') : tmp'[r] = relay'[r]
    BY <1>4 DEF ReadRelay, Goto
  <2>2. \A r \in 1..Len(tmp) : tmp[r] = relay[r]
    BY <1>4, <2>1 DEF ReadRelay
  <2>3. tmp \in Seq(Bit) /\ relay[Len(tmp) + 1] \in Bit
    <3>1. tmp \in Seq(Bit) /\ Len(tmp) < NRelays /\ relay \in RelayValues
      BY <1>4 DEF ReadRelay, TypeOK, LoopTypeOK, IoTypeOK
    <3> QED
      BY <3>1, BleNusAssumption, LenProperties DEF RelayValues, Relays
  <2>4. /\ Len(tmp') = Len(tmp) + 1
        /\ tmp'[Len(tmp) + 1] = relay[Len(tmp) + 1]
        /\ \A r \in 1..Len(tmp) : tmp'[r] = tmp[r]
    BY <1>4, <2>3, AppendProperties DEF ReadRelay
  <2> QED
    BY <1>4, <2>2, <2>3, <2>4, LenProperties DEF ReadRelay
<1>5. CASE PutReport
  <2>1. SUFFICES ASSUME ~reportFlag PROVE relay = tmp
    <3>1. report'.msg = tmp
      BY <1>5 DEF PutReport
    <3> QED
      BY <1>5, <2>1, <3>1 DEF PutReport, Goto
  <2>2. tmp \in Seq(Bit) /\ Len(tmp) = NRelays /\ relay \in RelayValues
    BY <1>5 DEF PutReport, TypeOK, LoopTypeOK, IoTypeOK
  <2>3. \A r \in 1..NRelays : tmp[r] = relay[r]
    BY <1>5, <2>1, <2>2 DEF PutReport
  <2> QED
    BY <2>2, <2>3 DEF RelayValues, Relays
<1>6. CASE PutReportData
  <2>1. report'.msg = report.msg
    BY <1>6 DEF PutReportData, TypeOK, SlotTypeOK
  <2> QED
    BY <1>6, <2>1 DEF PutReportData, Goto
<1>7. CASE \/ SendTest \/ SendCopy \/ SendClear \/ FlagTest \/ TxCheck
           \/ TxDrain \/ TxMark \/ TxArm
  BY <1>7 DEF SendTest, SendCopy, SendClear, FlagTest, TxCheck, TxDrain,
              TxMark, TxArm, Goto
<1> HIDE DEF NoUnreportedChange
<1> QED
  BY <1>1, <1>2, <1>3, <1>4, <1>5, <1>6, <1>7 DEF Next, MainStep, Handlers

(* No relay change goes unreported: whenever the report flag is clear, the  *)
(* relays are those of the last report composed (ble_nus_app.c:70-78).      *)
THEOREM Reported == Spec => []NoUnreportedChange
<1>1. Init => NoUnreportedChange
  BY DEF Init, NoUnreportedChange
<1>2. TypeOK /\ NoUnreportedChange /\ [Next]_vars => NoUnreportedChange'
  <2>1. ASSUME NoUnreportedChange, UNCHANGED vars PROVE NoUnreportedChange'
    BY <2>1 DEF NoUnreportedChange, vars, mainVars
  <2> QED
    BY <2>1, ReportStep
<1> QED
  BY <1>1, <1>2, TypeCorrect, PTL DEF Spec

-----------------------------------------------------------------------------
(* Flow control.  What is outstanding is at most what the guard let through *)
(* plus the one notification that the busy flag, or the step about to set   *)
(* it, accounts for; and past the test the busy flag is clear.              *)
Counted == inflight <= expiries + (IF xferDone \/ pc = "txMark" THEN 1 ELSE 0)

FlowInv ==
  /\ Counted
  /\ pc = "txDrain" => ~xferDone
  /\ link = "down" => inflight = 0

LEMMA FlowStep ==
  ASSUME TypeOK, FlowInv, Next
  PROVE  FlowInv'
<1>0. inflight \in Nat /\ expiries \in Nat
  BY DEF TypeOK, TxTypeOK, CountTypeOK
<1> USE DEF FlowInv, Counted
<1>1. CASE \/ (\E r \in Relays, v \in Bit : Command(r, v)) \/ StatusRequest
           \/ (\E k \in RespKinds : Request(k))
           \/ \E S \in (SUBSET Buttons) \ {{}} : Press(S)
  BY <1>1 DEF Command, StatusRequest, Request, Press, mainVars, history
<1>2. CASE Tick
  BY <1>2 DEF Tick, mainVars, history
<1>3. CASE \E n \in 1..inflight : TxComplete(n)
  <2>1. PICK n \in 1..inflight : TxComplete(n)
    BY <1>3
  <2> QED
    BY <1>0, <2>1 DEF TxComplete, mainVars, history
<1>4. CASE Connect \/ \E on \in BOOLEAN : SetNotify(on)
  BY <1>0, <1>4 DEF Connect, SetNotify, mainVars, history
<1>5. CASE Disconnect
  BY <1>5 DEF Disconnect, mainVars
<1>6. CASE \/ SendTest \/ SendCopy \/ SendClear \/ PutReportData \/ FlagTest
           \/ FlagClear \/ ReadRelay \/ PutReport
  BY <1>6 DEF SendTest, SendCopy, SendClear, PutReportData, FlagTest,
              FlagClear, ReadRelay, PutReport, Goto, history
<1>7. CASE TxCheck
  <2>1. CASE xferDone /\ Expired
    <3>1. /\ expiries' = expiries + 1
          /\ inflight' = inflight
          /\ ~xferDone'
          /\ link' = link
      BY <1>7, <2>1 DEF TxCheck
    <3>2. inflight <= expiries + 1
      BY <2>1
    <3> QED
      BY <1>0, <3>1, <3>2
  <2>2. CASE xferDone /\ ~Expired
    BY <1>0, <1>7, <2>2 DEF TxCheck, Goto
  <2>3. CASE ~xferDone
    BY <1>0, <1>7, <2>3 DEF TxCheck, Goto
  <2> QED
    BY <2>1, <2>2, <2>3
<1>8. CASE TxDrain
  BY <1>0, <1>8 DEF TxDrain, Accepted, Goto
<1>9. CASE TxMark \/ TxArm
  BY <1>9 DEF TxMark, TxArm, Goto, history
<1> HIDE DEF FlowInv, Counted
<1> QED
  BY <1>1, <1>2, <1>3, <1>4, <1>5, <1>6, <1>7, <1>8, <1>9
     DEF Next, MainStep, Handlers

(* A second notification is outstanding only if the send guard has expired  *)
(* on this connection, whatever the completion events' order and timing     *)
(* (ble_nus_app.c:99-135).                                                  *)
THEOREM FlowControl == Spec => []OneOutstandingUnlessExpired
<1>1. Init => FlowInv
  BY DEF Init, FlowInv, Counted
<1>2. TypeOK /\ FlowInv /\ [Next]_vars => FlowInv'
  <2>1. ASSUME FlowInv, UNCHANGED vars PROVE FlowInv'
    BY <2>1 DEF FlowInv, Counted, vars, mainVars, history
  <2> QED
    BY <2>1, FlowStep
<1>3. TypeOK /\ FlowInv => OneOutstandingUnlessExpired
  BY DEF TypeOK, TxTypeOK, CountTypeOK, FlowInv, Counted,
         OneOutstandingUnlessExpired
<1> QED
  BY <1>1, <1>2, <1>3, TypeCorrect, PTL DEF Spec

-----------------------------------------------------------------------------
(* What RINGBUF_Put of some bytes leaves in the ring: all of them, behind   *)
(* those it held, when they fit; nothing more, when it is full.             *)
LEMMA PutFits ==
  ASSUME NEW r \in Seq(Bytes), NEW s \in Seq(Bytes), Fits(r, s)
  PROVE  Put(r, s) = r \o s
<1>1. Len(s) <= RingCap - Len(r)
  BY BleNusAssumption, LenProperties DEF Fits
<1>2. SubSeq(s, 1, Len(s)) = s
  BY SubSeqFull
<1> QED
  BY <1>1, <1>2 DEF Put

LEMMA PutFull ==
  ASSUME NEW r \in Seq(Bytes), NEW s \in Seq(Bytes), Len(r) = RingCap
  PROVE  Put(r, s) = r
<1> DEFINE n == IF Len(s) <= RingCap - Len(r) THEN Len(s) ELSE RingCap - Len(r)
<1>1. n = 0
  BY BleNusAssumption, LenProperties
<1>2. SubSeq(s, 1, n) = <<>>
  BY <1>1, SubSeqEmpty
<1>3. Put(r, s) = r \o SubSeq(s, 1, n)
  BY DEF Put
<1> QED
  BY <1>2, <1>3, ConcatEmptySeq

LEMMA PutOne ==
  ASSUME NEW r \in Seq(Bytes), Len(r) <= RingCap, NEW b \in Bytes
  PROVE  /\ Len(r) = RingCap => Put(r, <<b>>) = r
         /\ Len(r) < RingCap =>
              /\ Fits(r, <<b>>)
              /\ Len(Put(r, <<b>>)) = Len(r) + 1
              /\ \A i \in 1..Len(r) : Put(r, <<b>>)[i] = r[i]
              /\ Put(r, <<b>>)[Len(r) + 1] = b
<1>1. /\ <<b>> \in Seq(Bytes) /\ Len(<<b>>) = 1 /\ <<b>>[1] = b
      /\ Len(r) \in Nat /\ RingCap \in Nat
  BY BleNusAssumption, LenProperties
<1>2. ASSUME Len(r) < RingCap PROVE Fits(r, <<b>>)
  BY <1>1, <1>2 DEF Fits
<1>3. r \o <<b>> = Append(r, b)
  BY AppendIsConcat
<1>4. Len(r) = RingCap => Put(r, <<b>>) = r
  BY <1>1, PutFull
<1>5. ASSUME Len(r) < RingCap PROVE Put(r, <<b>>) = Append(r, b)
  BY <1>1, <1>2, <1>3, <1>5, PutFits
<1>6. /\ Len(Append(r, b)) = Len(r) + 1
      /\ \A i \in 1..Len(r) : Append(r, b)[i] = r[i]
      /\ Append(r, b)[Len(r) + 1] = b
  BY AppendProperties
<1> QED
  BY <1>2, <1>4, <1>5, <1>6, Zenon

-----------------------------------------------------------------------------
(* The response path.  While PutData copies a slot that no handler rewrites *)
(* and meets no full ring, the ring ends with the bytes copied so far.       *)

Whole(s) == Header + s.len + 1

\* r ends with the first n bytes of the frame of slot s.
Copied(r, s, n) ==
  /\ n <= Len(r)
  /\ \A k \in 1..n :
       r[Len(r) - n + k] = Byte(s.msg, IF k = Whole(s) THEN Crc ELSE k)

CopyInv ==
  /\ pc = "sendCopy" =>
       dirty \/ Len(ring) = RingCap
             \/ (idx <= Whole(send) /\ Copied(ring, send, idx - 1))
  /\ pc = "sendClear" =>
       dirty \/ Len(ring) = RingCap \/ Copied(ring, send, Whole(send))

LEMMA CopyFacts ==
  ASSUME TypeOK
  PROVE  /\ ring \in Seq(Bytes) /\ Len(ring) \in Nat /\ Len(ring) <= RingCap
         /\ RingCap \in Nat /\ idx \in Nat \ {0}
         /\ send.len \in Nat /\ send.msg \in RespKinds
         /\ Whole(send) \in Nat /\ Whole(send) = 4 + send.len /\ Header = 3
BY BleNusAssumption, LenProperties
   DEF TypeOK, TxTypeOK, SlotTypeOK, LoopTypeOK, Whole, Header

\* One more byte.
LEMMA CopyOne ==
  ASSUME NEW r \in Seq(Bytes), Len(r) < RingCap, NEW s, NEW n \in Nat,
         NEW b \in Bytes, b = Byte(s.msg, IF n + 1 = Whole(s) THEN Crc ELSE n + 1),
         Copied(r, s, n)
  PROVE  Copied(Put(r, <<b>>), s, n + 1)
<1> DEFINE p == Put(r, <<b>>)
<1>0. n <= Len(r) /\ Len(r) \in Nat /\ RingCap \in Nat
  BY LenProperties, BleNusAssumption DEF Copied
<1>1. Len(r) <= RingCap
  BY <1>0
<1>2. /\ Len(p) = Len(r) + 1
      /\ \A i \in 1..Len(r) : p[i] = r[i]
      /\ p[Len(r) + 1] = b
  BY <1>1, PutOne
<1> HIDE DEF p
<1>3. ASSUME NEW k \in 1..(n + 1)
      PROVE  p[Len(p) - (n + 1) + k] = Byte(s.msg, IF k = Whole(s) THEN Crc ELSE k)
  <2>1. CASE k = n + 1
    <3>1. Len(p) - (n + 1) + k = Len(r) + 1
      BY <1>0, <1>2, <2>1
    <3> QED
      BY <1>2, <2>1, <3>1
  <2>2. CASE k # n + 1
    <3>1. /\ k \in 1..n /\ Len(r) - n + k \in 1..Len(r)
          /\ Len(p) - (n + 1) + k = Len(r) - n + k
      BY <1>0, <1>2, <2>2
    <3> QED
      BY <1>2, <3>1 DEF Copied
  <2> QED
    BY <2>1, <2>2
<1>4. n + 1 <= Len(p)
  BY <1>0, <1>2
<1> QED
  BY <1>3, <1>4 DEF Copied, p

LEMMA CopySame ==
  ASSUME UNCHANGED <<pc, idx, dirty, ring, send>>, CopyInv
  PROVE  CopyInv'
BY DEF CopyInv

LEMMA CopyStep ==
  ASSUME TypeOK, CopyInv, Next
  PROVE  CopyInv'
<1>1. CASE \/ (\E r \in Relays, v \in Bit : Command(r, v)) \/ StatusRequest
           \/ (\E S \in (SUBSET Buttons) \ {{}} : Press(S)) \/ Tick
           \/ (\E n \in 1..inflight : TxComplete(n)) \/ Connect
           \/ (\E on \in BOOLEAN : SetNotify(on)) \/ Disconnect
  <2>1. UNCHANGED <<pc, idx, dirty, ring, send>>
    BY <1>1 DEF Command, StatusRequest, Press, Tick, TxComplete, Connect,
       SetNotify, Disconnect, mainVars, history
  <2> QED
    BY <2>1, CopySame
<1>2. CASE \E k \in RespKinds : Request(k)
  <2>1. UNCHANGED pc /\ dirty' = (dirty \/ pc \in {"sendCopy", "sendClear"})
    BY <1>2 DEF Request, mainVars
  <2> QED
    BY <2>1 DEF CopyInv
<1>3. CASE SendTest
  <2>1. idx' = 1 /\ send' = send /\ ring' = ring /\ pc' # "sendClear"
    BY <1>3 DEF SendTest, Goto
  <2>2. idx' <= Whole(send') /\ Copied(ring', send', idx' - 1)
    BY <2>1, CopyFacts DEF Copied
  <2> QED
    BY <2>1, <2>2 DEF CopyInv
<1>4. CASE SendCopy
  <2> DEFINE more == idx <= Header + send.len
             b == Byte(send.msg, IF more THEN idx ELSE Crc)
  <2>1. /\ pc = "sendCopy" /\ idx' = idx + 1 /\ ring' = Put(ring, <<b>>)
        /\ pc' = (IF more THEN "sendCopy" ELSE "sendClear")
        /\ UNCHANGED <<send, dirty>>
    BY <1>4 DEF SendCopy, Goto
  <2>2. b \in Bytes
    BY CopyFacts DEF Byte, Bytes, Messages, Crc
  <2>3. CASE dirty
    BY <2>1, <2>3 DEF CopyInv
  <2>4. CASE Len(ring) = RingCap
    <3>1. ring' = ring
      BY <2>1, <2>2, <2>4, CopyFacts, PutOne
    <3> QED
      BY <2>4, <3>1 DEF CopyInv
  <2>5. CASE ~dirty /\ Len(ring) < RingCap
    <3>1. idx <= Whole(send) /\ Copied(ring, send, idx - 1) /\ idx - 1 \in Nat
      <4>1. Len(ring) # RingCap
        BY <2>5, CopyFacts
      <4> QED
        BY <2>1, <2>5, <4>1, CopyFacts DEF CopyInv
    <3>2. (more <=> (idx - 1) + 1 # Whole(send)) /\ (idx - 1) + 1 = idx
      BY <3>1, CopyFacts
    <3>3. b = Byte(send.msg, IF (idx - 1) + 1 = Whole(send) THEN Crc ELSE (idx - 1) + 1)
      BY <3>2
    <3> HIDE DEF b
    <3>4. Copied(Put(ring, <<b>>), send, (idx - 1) + 1)
      BY <2>2, <2>5, <3>1, <3>3, CopyFacts, CopyOne
    <3>5. Copied(ring', send', idx)
      BY <2>1, <3>2, <3>4
    <3>6. idx' - 1 = idx /\ (more => idx' <= Whole(send')) /\ (~more => idx = Whole(send'))
      BY <2>1, <3>1, <3>2, CopyFacts
    <3>7. pc' = "sendCopy" => idx' <= Whole(send') /\ Copied(ring', send', idx' - 1)
      BY <2>1, <3>5, <3>6
    <3>8. pc' = "sendClear" => Copied(ring', send', Whole(send'))
      BY <2>1, <3>5, <3>6
    <3> QED
      BY <3>7, <3>8 DEF CopyInv
  <2> QED
    BY <2>3, <2>4, <2>5, CopyFacts
<1>5. CASE \/ SendClear \/ PutReportData \/ FlagTest \/ FlagClear \/ ReadRelay
           \/ PutReport \/ TxCheck \/ TxDrain \/ TxMark \/ TxArm
  <2>1. pc' \notin {"sendCopy", "sendClear"}
    BY <1>5 DEF SendClear, PutReportData, FlagTest, FlagClear, ReadRelay,
       PutReport, TxCheck, TxDrain, TxMark, TxArm, Goto
  <2> QED
    BY <2>1 DEF CopyInv
<1> QED
  BY <1>1, <1>2, <1>3, <1>4, <1>5 DEF Next, MainStep, Handlers

(* A response that was not rewritten under the copy and met no full ring    *)
(* stands in the ring as one whole frame when PutData releases the slot     *)
(* (ble_nus_app.c:445-454), whatever handlers ran between the bytes.        *)
THEOREM ResponseWhole == Spec => []ResponseFrameWhole
<1>1. Init => CopyInv
  BY DEF Init, CopyInv
<1>2. TypeOK /\ CopyInv /\ [Next]_vars => CopyInv'
  <2>1. ASSUME CopyInv, UNCHANGED vars PROVE CopyInv'
    <3>1. UNCHANGED <<pc, idx, dirty, ring, send>>
      BY <2>1 DEF vars, mainVars, history
    <3> QED
      BY <2>1, <3>1, CopySame
  <2> QED
    BY <2>1, CopyStep
<1>3. TypeOK /\ CopyInv => ResponseFrameWhole
  <2> SUFFICES ASSUME TypeOK, CopyInv, pc = "sendClear", ~dirty, Len(ring) # RingCap
               PROVE  LET f == Frame(send.msg, send.len)
                      IN  /\ Len(ring) >= Len(f)
                          /\ SubSeq(ring, Len(ring) - Len(f) + 1, Len(ring)) = f
    BY DEF ResponseFrameWhole
  <2> DEFINE f == Frame(send.msg, send.len)
             t == SubSeq(ring, Len(ring) - Len(f) + 1, Len(ring))
  <2> DEFINE n == Whole(send)
  <2>1. Copied(ring, send, n)
    BY DEF CopyInv
  <2>2. f \in Seq(Bytes) /\ Len(f) = n
    <3>1. send.msg \in Messages /\ send.len \in Nat /\ n = send.len + 4
      BY CopyFacts DEF Messages
    <3> QED
      BY <3>1, FrameType
  <2>3. \A k \in 1..n : f[k] = Byte(send.msg, IF k = Whole(send) THEN Crc ELSE k)
    BY DEF Frame, Whole
  <2>4. n <= Len(ring) /\ Len(ring) \in Nat /\ n \in Nat
    BY <2>1, CopyFacts DEF Copied
  <2> HIDE DEF f, n
  <2>5. /\ t \in Seq(Bytes) /\ Len(t) = n
        /\ \A k \in 1..n : t[k] = ring[Len(ring) - n + k]
    <3>1. \A i \in (Len(ring) - n + 1)..Len(ring) : ring[i] \in Bytes
      BY <2>4, CopyFacts, ElementOfSeq
    <3>2. Len(ring) - n + 1 \in Int /\ Len(ring) \in Int
      BY <2>4
    <3>3. t = SubSeq(ring, Len(ring) - n + 1, Len(ring))
      BY <2>2
    <3>4. /\ t \in Seq(Bytes)
          /\ Len(t) = IF Len(ring) - n + 1 <= Len(ring)
                      THEN Len(ring) - (Len(ring) - n + 1) + 1 ELSE 0
          /\ \A k \in 1..(Len(ring) - (Len(ring) - n + 1) + 1) :
               t[k] = ring[(Len(ring) - n + 1) + k - 1]
      BY <3>1, <3>2, <3>3, SubSeqProperties
    <3> QED
      BY <2>4, <3>4
  <2> HIDE DEF t
  <2>6. \A k \in 1..n : t[k] = f[k]
    BY <2>1, <2>3, <2>5 DEF Copied
  <2>7. t = f
    BY <2>2, <2>5, <2>6, SeqEqual
  <2> QED
    BY <2>2, <2>4, <2>7 DEF t, f
<1> QED
  BY <1>1, <1>2, <1>3, TypeCorrect, PTL DEF Spec

-----------------------------------------------------------------------------
(* What the peer has been shown.  Once a report has been queued, its last   *)
(* byte is the last of any report's in the ring, or the peer has it.        *)

LastReport(s, m) ==
  \A i \in ReportEnds(s) : (\A j \in ReportEnds(s) : j <= i) => s[i].of = m

ShownInv ==
  (~lost /\ report.len = 0) =>
    /\ LastReport(ring, report.msg)
    /\ ReportEnds(ring) = {} => shown = report.msg

LEMMA EndsFacts ==
  ASSUME NEW s \in Seq(Bytes)
  PROVE  ReportEnds(s) = {i \in 1..Len(s) : s[i].at = Crc /\ s[i].of \notin RespKinds}
BY LenProperties DEF ReportEnds

LEMMA ShownSame ==
  ASSUME ShownInv, UNCHANGED <<report, ring, shown>>, lost' = lost \/ lost'
  PROVE  ShownInv'
<1>1. CASE lost'
  BY <1>1 DEF ShownInv
<1>2. CASE lost' = lost
  BY <1>2 DEF ShownInv, LastReport, ReportEnds
<1> QED
  BY <1>1, <1>2

LEMMA ShownCopy ==
  ASSUME TypeOK, ShownInv, SendCopy
  PROVE  ShownInv'
<1> DEFINE more == idx <= Header + send.len
           b == Byte(send.msg, IF more THEN idx ELSE Crc)
<1>1. /\ ring' = Put(ring, <<b>>) /\ lost' = (lost \/ ~Fits(ring, <<b>>))
      /\ UNCHANGED <<report, shown>>
  BY DEF SendCopy
<1>2. b \in Bytes /\ b.of \in RespKinds
  BY CopyFacts DEF Byte, Bytes, Messages, Crc
<1> HIDE DEF b
<1>3. CASE Len(ring) = RingCap
  <2>1. ring' = ring
    BY <1>1, <1>2, <1>3, CopyFacts, PutOne
  <2>2. lost' \in BOOLEAN /\ lost \in BOOLEAN
    BY <1>1 DEF TypeOK, IoTypeOK
  <2>3. lost' = lost \/ lost'
    BY <1>1, <2>2, Zenon
  <2> QED
    BY <1>1, <2>1, <2>3, ShownSame
<1>4. CASE Len(ring) < RingCap
  <2>1. /\ Len(ring') = Len(ring) + 1
        /\ \A i \in 1..Len(ring) : ring'[i] = ring[i]
        /\ ring'[Len(ring) + 1] = b
    BY <1>1, <1>2, <1>4, CopyFacts, PutOne
  <2>2. ring' \in Seq(Bytes)
    BY TxTypeStep DEF Next, MainStep, TxTypeOK
  <2>3. ReportEnds(ring') = ReportEnds(ring)
    <3>1. ASSUME NEW i
          PROVE  (i \in 1..Len(ring') /\ ring'[i].of \notin RespKinds)
                   => i \in 1..Len(ring) /\ ring'[i] = ring[i]
      BY <1>2, <2>1, CopyFacts
    <3>2. \A i \in 1..Len(ring) : i \in 1..Len(ring')
      BY <2>1, CopyFacts
    <3>3. ReportEnds(ring')
            = {i \in 1..Len(ring') : ring'[i].at = Crc /\ ring'[i].of \notin RespKinds}
      BY <2>2, EndsFacts, Zenon
    <3>4. ReportEnds(ring)
            = {i \in 1..Len(ring) : ring[i].at = Crc /\ ring[i].of \notin RespKinds}
      BY CopyFacts, EndsFacts, Zenon
    <3>5. \A i \in 1..Len(ring) : ring'[i] = ring[i]
      BY <2>1
    <3>6. ReportEnds(ring') \subseteq ReportEnds(ring)
      BY <3>1, <3>3, <3>4, Zenon
    <3>7. ReportEnds(ring) \subseteq ReportEnds(ring')
      BY <3>2, <3>3, <3>4, <3>5, Zenon
    <3> QED
      BY <3>6, <3>7
  <2>4. \A i \in ReportEnds(ring) : ring'[i] = ring[i]
    BY <2>1, EndsFacts, CopyFacts
  <2>5. ~lost' => ~lost
    BY <1>1
  <2> QED
    BY <1>1, <2>3, <2>4, <2>5 DEF ShownInv, LastReport
<1> QED
  BY <1>3, <1>4, CopyFacts

LEMMA ShownQueue ==
  ASSUME TypeOK, ShownInv, PutReportData
  PROVE  ShownInv'
<1> DEFINE f == IF report.len = 0 THEN <<>> ELSE Frame(report.msg, report.len)
<1>1. /\ ring' = Put(ring, f) /\ lost' = (lost \/ ~Fits(ring, f))
      /\ report' = [report EXCEPT !.len = 0] /\ shown' = shown
  BY DEF PutReportData
<1>2. /\ report.msg \in RelayValues /\ report.len \in Nat
      /\ report'.msg = report.msg /\ report'.len = 0
  BY <1>1, BleNusAssumption DEF TypeOK, SlotTypeOK
<1> SUFFICES ASSUME ~lost'
             PROVE  /\ LastReport(ring', report.msg)
                    /\ ReportEnds(ring') = {} => shown = report.msg
  BY <1>1, <1>2 DEF ShownInv
<1>3. ~lost /\ Fits(ring, f)
  BY <1>1
<1>4. CASE report.len = 0
  <2>1. f = <<>> /\ <<>> \in Seq(Bytes)
    BY <1>4, EmptySeq
  <2>2. ring' = ring
    BY <1>1, <1>3, <2>1, CopyFacts, PutFits, ConcatEmptySeq
  <2> QED
    BY <1>3, <1>4, <2>2 DEF ShownInv
<1>5. CASE report.len # 0
  <2>1. f = Frame(report.msg, report.len) /\ report.msg \in Messages
    BY <1>2, <1>5 DEF Messages
  <2>2. f \in Seq(Bytes) /\ Len(f) = report.len + 4
    BY <1>2, <2>1, FrameType
  <2>3. f[Len(f)] = Byte(report.msg, Crc)
    <3>1. Len(f) \in 1..(Header + report.len + 1) /\ Len(f) = Header + report.len + 1
      BY <1>2, <2>2 DEF Header
    <3> QED
      BY <2>1, <3>1 DEF Frame
  <2> HIDE DEF f
  <2>4. ring' = ring \o f
    BY <1>1, <1>3, <2>2, CopyFacts, PutFits
  <2>5. /\ ring' \in Seq(Bytes) /\ Len(ring') = Len(ring) + Len(f)
        /\ \A i \in 1..(Len(ring) + Len(f)) :
             ring'[i] = IF i <= Len(ring) THEN ring[i] ELSE f[i - Len(ring)]
    BY <2>2, <2>4, CopyFacts, ConcatProperties
  <2>6. Len(ring') \in 1..Len(ring') /\ ring'[Len(ring')] = f[Len(f)]
    <3>1. Len(ring) \in Nat /\ Len(f) \in Nat /\ Len(f) > 0
      BY <1>2, <2>2, CopyFacts
    <3>2. /\ Len(ring) + Len(f) \in 1..(Len(ring) + Len(f))
          /\ ~(Len(ring) + Len(f) <= Len(ring))
          /\ Len(ring) + Len(f) - Len(ring) = Len(f)
      BY <3>1
    <3>3. Len(ring') = Len(ring) + Len(f)
      BY <2>5
    <3>4. Len(ring') \in 1..Len(ring')
      BY <3>2, <3>3
    <3>5. ring'[Len(ring) + Len(f)] = f[Len(ring) + Len(f) - Len(ring)]
      BY <2>5, <3>2
    <3> QED
      BY <3>2, <3>3, <3>4, <3>5
  <2>7. report.msg \notin RespKinds
    BY <1>2, BleNusAssumption DEF RelayValues, Relays, Bit
  <2>8. ring'[Len(ring')].at = Crc /\ ring'[Len(ring')].of = report.msg
    BY <2>3, <2>6 DEF Byte
  <2>9. Len(ring') \in ReportEnds(ring') /\ \A i \in ReportEnds(ring') : i \in 1..Len(ring')
    BY <2>5, <2>6, <2>7, <2>8, EndsFacts
  <2>10. ASSUME NEW i \in ReportEnds(ring'), \A j \in ReportEnds(ring') : j <= i
         PROVE  i = Len(ring')
    <3>1. Len(ring') <= i /\ i \in 1..Len(ring')
      BY <2>9, <2>10
    <3> QED
      BY <2>6, <3>1
  <2> QED
    BY <2>8, <2>9, <2>10 DEF LastReport
<1> QED
  BY <1>4, <1>5

LEMMA ShownDrain ==
  ASSUME TypeOK, ShownInv, TxDrain
  PROVE  ShownInv'
<1>1. ring' = SubSeq(ring, Len(Chunk) + 1, Len(ring)) /\ report' = report
  BY DEF TxDrain
<1>2. ring \in Seq(Bytes) /\ Len(ring) <= RingCap /\ Len(ring) \in Nat
  BY CopyFacts
<1>3. /\ Chunk \in Seq(Bytes) /\ Len(Chunk) \in Nat /\ Len(Chunk) <= Len(ring)
      /\ ring' \in Seq(Bytes)
  BY <1>1, <1>2, ChunkType, LenProperties
<1>4. \A i \in 1..Len(Chunk) : Chunk[i] = ring[i]
  <2> DEFINE n == IF Len(ring) <= Mtu THEN Len(ring) ELSE Mtu
  <2>1. n \in 0..Len(ring) /\ n \in Int
    BY <1>2, BleNusAssumption
  <2>2. \A i \in 1..n : ring[i] \in Bytes
    BY <1>2, <2>1, ElementOfSeq
  <2> HIDE DEF n
  <2>3. /\ Len(SubSeq(ring, 1, n)) = n
        /\ \A i \in 1..n : SubSeq(ring, 1, n)[i] = ring[i]
    BY <2>1, <2>2, SubSeqProperties
  <2> QED
    BY <2>3 DEF Chunk, n
<1>5. /\ Len(ring') = Len(ring) - Len(Chunk)
      /\ \A i \in 1..Len(ring') : ring'[i] = ring[Len(Chunk) + i]
  <2>1. \A i \in (Len(Chunk) + 1)..Len(ring) : ring[i] \in Bytes
    BY <1>2, <1>3, ElementOfSeq
  <2>2. /\ Len(ring') = IF Len(Chunk) + 1 <= Len(ring)
                        THEN Len(ring) - (Len(Chunk) + 1) + 1 ELSE 0
        /\ \A i \in 1..(Len(ring) - (Len(Chunk) + 1) + 1) :
             ring'[i] = ring[Len(Chunk) + 1 + i - 1]
    BY <1>1, <1>2, <1>3, <2>1, SubSeqProperties
  <2> QED
    BY <1>2, <1>3, <2>2
<1>6. \A i \in ReportEnds(Chunk) : i \in ReportEnds(ring) /\ i <= Len(Chunk)
  BY <1>2, <1>3, <1>4, EndsFacts
<1>7. \A i \in ReportEnds(ring') : Len(Chunk) + i \in ReportEnds(ring)
  <2> TAKE i \in ReportEnds(ring')
  <2>1. i \in 1..Len(ring') /\ ring'[i].at = Crc /\ ring'[i].of \notin RespKinds
    BY <1>3, EndsFacts
  <2>2. Len(Chunk) + i \in 1..Len(ring)
    BY <1>2, <1>3, <1>5, <2>1
  <2>3. ring'[i] = ring[Len(Chunk) + i]
    BY <1>5, <2>1
  <2> QED
    BY <1>2, <2>1, <2>2, <2>3, EndsFacts
<1>8. \A i \in ReportEnds(ring) :
        i \in ReportEnds(Chunk) \/ i - Len(Chunk) \in ReportEnds(ring')
  <2> SUFFICES ASSUME NEW i \in ReportEnds(ring), i \notin ReportEnds(Chunk)
               PROVE  i - Len(Chunk) \in ReportEnds(ring')
    OBVIOUS
  <2>1. i \in 1..Len(ring) /\ ring[i].at = Crc /\ ring[i].of \notin RespKinds
    BY <1>2, EndsFacts
  <2>2. i > Len(Chunk)
    BY <1>2, <1>3, <1>4, <2>1, EndsFacts
  <2>3. i - Len(Chunk) \in 1..Len(ring') /\ Len(Chunk) + (i - Len(Chunk)) = i
    BY <1>2, <1>3, <1>5, <2>1, <2>2
  <2>4. ring'[i - Len(Chunk)] = ring[i]
    BY <1>5, <2>3
  <2> QED
    BY <1>3, <2>1, <2>3, <2>4, EndsFacts
<1> SUFFICES ASSUME ~lost', report.len = 0
             PROVE  /\ LastReport(ring', report.msg)
                    /\ ReportEnds(ring') = {} => shown' = report.msg
  BY <1>1 DEF ShownInv
<1>9. ~lost
  BY DEF TxDrain
<1>10. /\ LastReport(ring, report.msg)
       /\ ReportEnds(ring) = {} => shown = report.msg
  BY <1>9 DEF ShownInv
<1>11. ASSUME NEW i \in ReportEnds(ring'), \A j \in ReportEnds(ring') : j <= i
       PROVE  ring'[i].of = report.msg
  <2>1. i \in 1..Len(ring') /\ Len(Chunk) + i \in ReportEnds(ring)
    BY <1>3, <1>7, EndsFacts
  <2>2. ASSUME NEW j \in ReportEnds(ring) PROVE j <= Len(Chunk) + i
    <3>1. j \in 1..Len(ring)
      BY <1>2, EndsFacts
    <3>2. CASE j \in ReportEnds(Chunk)
      BY <1>3, <1>5, <1>6, <2>1, <3>1, <3>2
    <3>3. CASE j - Len(Chunk) \in ReportEnds(ring')
      <4>1. j - Len(Chunk) <= i
        BY <1>11, <3>3
      <4> QED
        BY <1>3, <1>5, <2>1, <3>1, <4>1
    <3> QED
      BY <1>8, <3>2, <3>3
  <2>3. ring[Len(Chunk) + i].of = report.msg
    BY <1>10, <2>1, <2>2 DEF LastReport
  <2> QED
    BY <1>5, <2>1, <2>3
<1>12. ASSUME ReportEnds(ring') = {} PROVE shown' = report.msg
  <2>1. \A i \in ReportEnds(ring) : i \in ReportEnds(Chunk)
    BY <1>8, <1>12
  <2>2. CASE ReportEnds(Chunk) = {}
    <3>1. shown' = shown
      BY <2>2 DEF TxDrain
    <3> QED
      BY <1>10, <2>1, <2>2, <3>1
  <2>3. CASE ReportEnds(Chunk) # {}
    <3>1. Chunk # <<>>
      <4>1. Len(Chunk) # 0
        BY <1>3, <2>3, EndsFacts
      <4> QED
        BY <4>1, EmptySeq
    <3>2. PICK i \in ReportEnds(Chunk) :
            (\A j \in ReportEnds(Chunk) : j <= i) /\ shown' = Chunk[i].of
      BY <2>3, <3>1 DEF TxDrain
    <3>3. i \in ReportEnds(ring) /\ \A j \in ReportEnds(ring) : j <= i
      BY <1>6, <2>1, <3>2
    <3>4. ring[i].of = report.msg
      BY <1>10, <3>3 DEF LastReport
    <3>5. Chunk[i] = ring[i]
      BY <1>3, <1>4, EndsFacts
    <3> QED
      BY <3>2, <3>4, <3>5
  <2> QED
    BY <2>2, <2>3
<1> QED
  BY <1>11, <1>12 DEF LastReport

LEMMA ShownStep ==
  ASSUME TypeOK, ShownInv, Next
  PROVE  ShownInv'
<1>1. CASE \/ (\E r \in Relays, v \in Bit : Command(r, v)) \/ StatusRequest
           \/ (\E k \in RespKinds : Request(k))
           \/ (\E S \in (SUBSET Buttons) \ {{}} : Press(S)) \/ Tick
           \/ (\E n \in 1..inflight : TxComplete(n)) \/ Connect
           \/ (\E on \in BOOLEAN : SetNotify(on)) \/ Disconnect
  <2>1. UNCHANGED <<report, ring, shown>> /\ (lost' = lost \/ lost')
    BY <1>1 DEF Command, StatusRequest, Request, Press, Tick, TxComplete, Connect,
       SetNotify, Disconnect, mainVars, history
  <2> QED
    BY <2>1, ShownSame
<1>2. CASE \/ SendTest \/ SendClear \/ FlagTest \/ FlagClear \/ ReadRelay
           \/ TxCheck \/ TxMark \/ TxArm
  <2>1. UNCHANGED <<report, ring, shown, lost>>
    BY <1>2 DEF SendTest, SendClear, FlagTest, FlagClear, ReadRelay, TxCheck,
       TxMark, TxArm, history
  <2> QED
    BY <2>1, ShownSame
<1>3. CASE PutReport
  <2>1. report'.len # 0
    BY <1>3, BleNusAssumption DEF PutReport
  <2> QED
    BY <2>1 DEF ShownInv
<1> QED
  BY <1>1, <1>2, <1>3, ShownCopy, ShownQueue, ShownDrain DEF Next, MainStep, Handlers

(* When the loop has nothing left to report or to send, and no byte of the  *)
(* last report was lost on the way, the peer has been shown the relays as   *)
(* they are: the last report composed is the last one in the ring or on the *)
(* other side of the link, and it shows every change the flag has announced *)
(* (ble_nus_app.c:69-135).                                                  *)
THEOREM PeerAgrees == Spec => []PeerAgreesWhenQuiet
<1>1. Init => ShownInv
  BY DEF Init, ShownInv
<1>2. TypeOK /\ ShownInv /\ [Next]_vars => ShownInv'
  <2>1. ASSUME ShownInv, UNCHANGED vars PROVE ShownInv'
    <3>1. UNCHANGED <<report, ring, shown, lost>>
      BY <2>1 DEF vars, history
    <3> QED
      BY <2>1, <3>1, ShownSame
  <2> QED
    BY <2>1, ShownStep
<1>3. ShownInv /\ NoUnreportedChange => PeerAgreesWhenQuiet
  <2> SUFFICES ASSUME ShownInv, NoUnreportedChange, pc = "sendTest", Quiet, ~lost
               PROVE  shown = relay
    BY DEF PeerAgreesWhenQuiet
  <2>1. relay = report.msg
    BY DEF NoUnreportedChange, Quiet
  <2>2. ReportEnds(ring) = {}
    <3>1. ring = <<>> /\ <<>> \in Seq(Bytes) /\ Len(<<>>) = 0
      BY EmptySeq DEF Quiet
    <3>2. ReportEnds(ring) = {i \in 1..Len(ring) : ring[i].at = Crc /\ ring[i].of \notin RespKinds}
      BY <3>1, EndsFacts
    <3>3. Len(ring) = 0
      BY <3>1
    <3>4. 1..Len(ring) = {}
      BY <3>3
    <3> QED
      BY <3>2, <3>4
  <2> QED
    BY <2>1, <2>2 DEF ShownInv, Quiet
<1> QED
  BY <1>1, <1>2, <1>3, TypeCorrect, Reported, PTL DEF Spec
=============================================================================
