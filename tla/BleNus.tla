------------------------------- MODULE BleNus -------------------------------
(***************************************************************************)
(* The BLE side of the switch firmware (ble_nus_app.c, main.c): commands   *)
(* and touch buttons change the relays from interrupt handlers, the main   *)
(* loop turns the report flag and the response slot into framed bytes in a *)
(* transmit ring, and sends the ring to the phone, one notification at a   *)
(* time, with a 500 ms guard against a completion event that never comes.  *)
(*                                                                         *)
(* BLE events, the touch scan and the system tick are interrupt handlers   *)
(* of one priority: each is one atomic action, enabled whatever the main   *)
(* loop is doing.  The main loop is the only process with a program        *)
(* counter; its steps are split wherever it reads or writes a variable     *)
(* that a handler also uses.  The ring and the report slot belong to the   *)
(* main loop alone, so a whole copy of the report is one step.             *)
(*                                                                         *)
(* Abstracted: PIN checking (a request the PIN check refuses is a request  *)
(* answered with an acknowledgement frame), buzzer and LEDs, the bytes of  *)
(* a payload (a byte is a position of a message).                          *)
(***************************************************************************)
EXTENDS Integers, Sequences, FiniteSets

CONSTANTS
  NRelays,      \* relays driven by the board (4)
  Buttons,      \* relays that have a touch button (1, 2 and 3)
  RespKinds,    \* the responses ProcessData writes into ProtoSend
  RespLen,      \* payload length of each response
  ReportLen,    \* payload length of a status report (8)
  RingCap,      \* bytes the transmit ring can hold (63)
  Mtu,          \* BLE_NUS_MAX_DATA_LEN (20)
  TxBuffers,    \* notifications the SoftDevice can hold
  SendTicks,    \* the 500 ms send guard, in system ticks
  MaxInputs     \* bound on commands, requests, presses and link changes

ASSUME BleNusAssumption ==
  /\ NRelays \in Nat \ {0}
  /\ Buttons \subseteq 1..NRelays
  /\ RespKinds \cap [1..NRelays -> {0, 1}] = {}   \* no response is a report
  /\ RespLen \in [RespKinds -> Nat \ {0}]
  /\ ReportLen \in Nat \ {0}
  /\ RingCap \in Nat \ {0}
  /\ Mtu \in Nat \ {0}
  /\ TxBuffers \in Nat \ {0}
  /\ SendTicks \in Nat \ {0}
  /\ MaxInputs \in Nat

Relays == 1..NRelays
Bit == {0, 1}                   \* a C bool: off or on
RelayValues == [Relays -> Bit]
AllOff == [r \in Relays |-> 0]

VARIABLES
  relay,      \* ioRelay_x_Status
  reportFlag, \* OUTPUT_REPORT_FLAG in reportFlag
  send,       \* BLE_NUS__ProtoSend: the message and the length still to queue
  report,     \* BLE_NUS__ProtoReport, likewise
  ring,       \* BLE_NUS_TxRingBuf, oldest byte first
  xferDone,   \* m_nus_xfer_done: TRUE while a notification is outstanding
  left,       \* ticks until tNusSendTimeout expires, 0 once it has
  link,       \* the connection as the SoftDevice sees it
  inflight,   \* notifications accepted by the SoftDevice, not yet completed
  pc,         \* where the main loop stands
  idx,        \* position of the next byte PutData copies from ProtoSend
  tmp,        \* tmpbuff: the relay values read so far
  \* History, read by the properties only.
  dirty,      \* ProtoSend was rewritten while PutData was copying it
  lost,       \* a byte may be missing from what the peer has of the last report
  shown,      \* relay values of the last report handed over to its last byte
  expiries,   \* times the send guard has expired on this connection
  inputs      \* inputs taken so far

mainVars == <<pc, idx, tmp>>
history == <<dirty, lost, shown, expiries>>
vars == <<relay, reportFlag, send, report, ring, xferDone, left, link,
          inflight, mainVars, history, inputs>>

-----------------------------------------------------------------------------
(* Frames.  Byte `at' of the frame of message `of'; the checksum is byte 0. *)

Messages == RespKinds \cup RelayValues
Bytes == [of : Messages, at : Nat]
Byte(m, i) == [of |-> m, at |-> i]

Header == 3   \* start code, opcode, length
Crc == 0

\* The frame of message m with n payload bytes, as BLE_NUS_PutData emits it.
Frame(m, n) ==
  [i \in 1..(Header + n + 1) |-> Byte(m, IF i = Header + n + 1 THEN Crc ELSE i)]

\* Faulty variant of Put: a ring that forgets it must keep one cell free.
PutIntoLastCell(r, s) ==
  LET room == RingCap + 1 - Len(r)
  IN  r \o SubSeq(s, 1, IF Len(s) <= room THEN Len(s) ELSE room)

\* RINGBUF_Put of each byte of s in turn; what does not fit is dropped.
Put(r, s) ==
  LET room == RingCap - Len(r)
  IN  r \o SubSeq(s, 1, IF Len(s) <= room THEN Len(s) ELSE room)

Fits(r, s) == Len(r) + Len(s) <= RingCap

-----------------------------------------------------------------------------
Init ==
  /\ relay = AllOff
  /\ reportFlag = FALSE
  /\ send \in [msg : RespKinds, len : {0}]
  /\ report = [msg |-> AllOff, len |-> 0]
  /\ ring = <<>>
  /\ xferDone = FALSE
  /\ left = 0
  /\ link = "down"
  /\ inflight = 0
  /\ pc = "sendTest"
  /\ idx = 1
  /\ tmp = <<>>
  /\ dirty = FALSE
  /\ lost = TRUE
  /\ shown = AllOff
  /\ expiries = 0
  /\ inputs = 0

-----------------------------------------------------------------------------
(* Interrupt handlers.                                                     *)

Input ==
  /\ inputs < MaxInputs
  /\ inputs' = inputs + 1

\* PACKET_OPCODE_CMD1..4 with the right PIN.
Command(r, v) ==
  /\ Input
  /\ link # "down"
  /\ relay' = [relay EXCEPT ![r] = v]
  /\ reportFlag' = TRUE
  /\ UNCHANGED <<send, report, ring, xferDone, left, link, inflight, mainVars,
                 history>>

\* PACKET_OPCODE_STATUS with the right PIN.
StatusRequest ==
  /\ Input
  /\ link # "down"
  /\ reportFlag' = TRUE
  /\ UNCHANGED <<relay, send, report, ring, xferDone, left, link, inflight,
                 mainVars, history>>

\* Every request answered through ProtoSend: the slot is written at once,
\* whatever it still holds and whatever the main loop is doing with it.
Request(k) ==
  /\ Input
  /\ link # "down"
  /\ send' = [msg |-> k, len |-> RespLen[k]]
  /\ dirty' = (dirty \/ pc \in {"sendCopy", "sendClear"})
  /\ UNCHANGED <<relay, reportFlag, report, ring, xferDone, left, link,
                 inflight, mainVars, lost, shown, expiries>>

\* Faulty variant of Press: the relay is toggled but no report is asked for.
PressUnreported(S) ==
  /\ Input
  /\ relay' = [r \in Relays |-> IF r \in S THEN 1 - relay[r] ELSE relay[r]]
  /\ UNCHANGED <<reportFlag, send, report, ring, xferDone, left, link, inflight,
                 mainVars, history>>

\* One touch scan that finds the buttons in S newly pressed.
Press(S) ==
  /\ Input
  /\ relay' = [r \in Relays |-> IF r \in S THEN 1 - relay[r] ELSE relay[r]]
  /\ reportFlag' = TRUE
  /\ UNCHANGED <<send, report, ring, xferDone, left, link, inflight, mainVars,
                 history>>

\* timer_systick_event_handler, as far as tNusSendTimeout can tell.
Tick ==
  /\ left' = IF left = 0 THEN 0 ELSE left - 1
  /\ UNCHANGED <<relay, reportFlag, send, report, ring, xferDone, link,
                 inflight, mainVars, history, inputs>>

\* BLE_EVT_TX_COMPLETE for n notifications.
TxComplete(n) ==
  /\ link # "down"
  /\ inflight' = inflight - n
  /\ xferDone' = FALSE
  /\ UNCHANGED <<relay, reportFlag, send, report, ring, left, link, mainVars,
                 history, inputs>>

\* BLE_GAP_EVT_CONNECTED.
Connect ==
  /\ Input
  /\ link = "down"
  /\ link' = "up"
  /\ xferDone' = FALSE
  /\ UNCHANGED <<relay, reportFlag, send, report, ring, left, inflight,
                 mainVars, history>>

\* The peer writes the notification descriptor: on_write.
SetNotify(on) ==
  /\ Input
  /\ link # "down"
  /\ link' = IF on THEN "notify" ELSE "up"
  /\ UNCHANGED <<relay, reportFlag, send, report, ring, xferDone, left,
                 inflight, mainVars, history>>

\* BLE_GAP_EVT_DISCONNECTED: the SoftDevice drops what it had not delivered.
Disconnect ==
  /\ Input
  /\ link # "down"
  /\ link' = "down"
  /\ xferDone' = FALSE
  /\ inflight' = 0
  /\ lost' = TRUE
  /\ expiries' = 0
  /\ UNCHANGED <<relay, reportFlag, send, report, ring, left, mainVars, dirty,
                 shown>>

Handlers ==
  \/ \E r \in Relays, v \in Bit : Command(r, v)
  \/ StatusRequest
  \/ \E k \in RespKinds : Request(k)
  \/ \E S \in (SUBSET Buttons) \ {{}} : Press(S)
  \/ Tick
  \/ \E n \in 1..inflight : TxComplete(n)
  \/ Connect
  \/ \E on \in BOOLEAN : SetNotify(on)
  \/ Disconnect

-----------------------------------------------------------------------------
(* BLE_NUS_Task in the main loop.                                          *)

Goto(l) == pc' = l

\* BLE_NUS_PutData(ProtoSend): nothing to do when its length is zero.
SendTest ==
  /\ pc = "sendTest"
  /\ Goto(IF send.len = 0 THEN "putReport" ELSE "sendCopy")
  /\ idx' = 1
  /\ dirty' = FALSE
  /\ UNCHANGED <<relay, reportFlag, send, report, ring, xferDone, left, link,
                 inflight, tmp, lost, shown, expiries, inputs>>

\* Faulty variant of SendCopy: the payload loop stops one byte early.
SendCopyShort ==
  /\ pc = "sendCopy"
  /\ LET more == idx < Header + send.len
         b == <<Byte(send.msg, IF more THEN idx ELSE Crc)>>
     IN  /\ ring' = Put(ring, b)
         /\ lost' = (lost \/ ~Fits(ring, b))
         /\ Goto(IF more THEN "sendCopy" ELSE "sendClear")
  /\ idx' = idx + 1
  /\ UNCHANGED <<relay, reportFlag, send, report, xferDone, left, link,
                 inflight, tmp, dirty, shown, expiries, inputs>>

\* One RINGBUF_Put of a byte read from ProtoSend as it is now: the header,
\* then payload while the loop's test against the slot's length holds, then
\* the checksum.
SendCopy ==
  /\ pc = "sendCopy"
  /\ LET more == idx <= Header + send.len
         b == <<Byte(send.msg, IF more THEN idx ELSE Crc)>>
     IN  /\ ring' = Put(ring, b)
         /\ lost' = (lost \/ ~Fits(ring, b))
         /\ Goto(IF more THEN "sendCopy" ELSE "sendClear")
  /\ idx' = idx + 1
  /\ UNCHANGED <<relay, reportFlag, send, report, xferDone, left, link,
                 inflight, tmp, dirty, shown, expiries, inputs>>

\* TxData->length = 0, which also discards a response written meanwhile.
SendClear ==
  /\ pc = "sendClear"
  /\ send' = [send EXCEPT !.len = 0]
  /\ Goto("putReport")
  /\ idx' = 1
  /\ UNCHANGED <<relay, reportFlag, report, ring, xferDone, left, link,
                 inflight, tmp, history, inputs>>

\* Faulty variant of PutReportData: the slot is not released.
PutReportDataKept ==
  /\ pc = "putReport"
  /\ LET f == IF report.len = 0 THEN <<>> ELSE Frame(report.msg, report.len)
     IN  /\ ring' = Put(ring, f)
         /\ lost' = (lost \/ ~Fits(ring, f))
  /\ Goto("flagTest")
  /\ UNCHANGED <<relay, reportFlag, send, report, xferDone, left, link,
                 inflight, idx, tmp, dirty, shown, expiries, inputs>>

\* BLE_NUS_PutData(ProtoReport): only the main loop uses this slot.
PutReportData ==
  /\ pc = "putReport"
  /\ LET f == IF report.len = 0 THEN <<>> ELSE Frame(report.msg, report.len)
     IN  /\ ring' = Put(ring, f)
         /\ lost' = (lost \/ ~Fits(ring, f))
  /\ report' = [report EXCEPT !.len = 0]
  /\ Goto("flagTest")
  /\ UNCHANGED <<relay, reportFlag, send, xferDone, left, link, inflight, idx,
                 tmp, dirty, shown, expiries, inputs>>

\* if(reportFlag & OUTPUT_REPORT_FLAG)
FlagTest ==
  /\ pc = "flagTest"
  /\ Goto(IF reportFlag THEN "flagClear" ELSE "txCheck")
  /\ UNCHANGED <<relay, reportFlag, send, report, ring, xferDone, left, link,
                 inflight, idx, tmp, history, inputs>>

\* reportFlag &= ~OUTPUT_REPORT_FLAG: it stores 0 into the only bit in use, so
\* a handler that sets the bit before the store loses it.
FlagClear ==
  /\ pc = "flagClear"
  /\ reportFlag' = FALSE
  /\ tmp' = <<>>
  /\ Goto("readRelay")
  /\ UNCHANGED <<relay, send, report, ring, xferDone, left, link, inflight,
                 idx, history, inputs>>

\* tmpbuff[i++] = ioRelay_x_Status, one relay at a time.
ReadRelay ==
  /\ pc = "readRelay"
  /\ tmp' = Append(tmp, relay[Len(tmp) + 1])
  /\ Goto(IF Len(tmp) + 1 = NRelays THEN "compose" ELSE "readRelay")
  /\ UNCHANGED <<relay, reportFlag, send, report, ring, xferDone, left, link,
                 inflight, idx, history, inputs>>

\* Faulty variant of PutReport: the flag is cleared again once the relays
\* have been read.
PutReportClearing ==
  /\ pc = "compose"
  /\ report' = [msg |-> tmp, len |-> ReportLen]
  /\ reportFlag' = FALSE
  /\ tmp' = <<>>
  /\ lost' = FALSE
  /\ Goto("txCheck")
  /\ UNCHANGED <<relay, send, ring, xferDone, left, link, inflight, idx, dirty,
                 shown, expiries, inputs>>

\* BLE_NUS_PutReport.
PutReport ==
  /\ pc = "compose"
  /\ report' = [msg |-> tmp, len |-> ReportLen]
  /\ tmp' = <<>>
  /\ lost' = FALSE
  /\ Goto("txCheck")
  /\ UNCHANGED <<relay, reportFlag, send, ring, xferDone, left, link,
                 inflight, idx, dirty, shown, expiries, inputs>>

-----------------------------------------------------------------------------
(* ble_nus_send_task in the main loop.                                     *)

Expired == left = 0

\* Faulty variants of TxCheck: one that does not return when busy, and one
\* without the guard.
TxCheckNoReturn ==
  /\ pc = "txCheck"
  /\ xferDone' = (xferDone /\ ~Expired)
  /\ expiries' = IF xferDone /\ Expired THEN expiries + 1 ELSE expiries
  /\ Goto("txDrain")
  /\ UNCHANGED <<relay, reportFlag, send, report, ring, left, link, inflight,
                 idx, tmp, dirty, lost, shown, inputs>>

TxCheckNoGuard ==
  /\ pc = "txCheck"
  /\ Goto(IF xferDone THEN "sendTest" ELSE "txDrain")
  /\ UNCHANGED <<relay, reportFlag, send, report, ring, xferDone, left, link,
                 inflight, idx, tmp, history, inputs>>

\* The guard, then `if(m_nus_xfer_done) return'.
TxCheck ==
  /\ pc = "txCheck"
  /\ xferDone' = (xferDone /\ ~Expired)
  /\ expiries' = IF xferDone /\ Expired THEN expiries + 1 ELSE expiries
  /\ Goto(IF xferDone /\ ~Expired THEN "sendTest" ELSE "txDrain")
  /\ UNCHANGED <<relay, reportFlag, send, report, ring, left, link, inflight,
                 idx, tmp, dirty, lost, shown, inputs>>

Chunk == SubSeq(ring, 1, IF Len(ring) <= Mtu THEN Len(ring) ELSE Mtu)

\* ble_nus_string_send succeeds.
Accepted == link = "notify" /\ inflight < TxBuffers

\* The reports whose last byte is in the sequence of bytes s, by position.
ReportEnds(s) ==
  {i \in DOMAIN s : s[i].at = Crc /\ s[i].of \notin RespKinds}

\* Up to Mtu bytes leave the ring and go to the SoftDevice; when it refuses
\* them they are gone.
TxDrain ==
  /\ pc = "txDrain"
  /\ ring' = SubSeq(ring, Len(Chunk) + 1, Len(ring))
  /\ IF Chunk = <<>>
     THEN Goto("sendTest") /\ UNCHANGED <<xferDone, inflight, lost, shown>>
     ELSE IF Accepted
     THEN /\ Goto("txMark")
          /\ inflight' = inflight + 1
          /\ \/ ReportEnds(Chunk) = {} /\ UNCHANGED shown
             \/ \E i \in ReportEnds(Chunk) :
                  /\ \A j \in ReportEnds(Chunk) : j <= i
                  /\ shown' = Chunk[i].of
          /\ UNCHANGED <<xferDone, lost>>
     ELSE /\ Goto("sendTest")
          /\ xferDone' = FALSE
          /\ lost' = TRUE
          /\ UNCHANGED <<inflight, shown>>
  /\ UNCHANGED <<relay, reportFlag, send, report, left, link, idx, tmp, dirty,
                 expiries, inputs>>

\* m_nus_xfer_done = true, after the call that started the transfer.
TxMark ==
  /\ pc = "txMark"
  /\ xferDone' = TRUE
  /\ Goto("txArm")
  /\ UNCHANGED <<relay, reportFlag, send, report, ring, left, link, inflight,
                 idx, tmp, history, inputs>>

\* InitTimeout(&tNusSendTimeout, 500).  The flag is not volatile: when a
\* handler has just cleared it the build may skip the call or not.
TxArm ==
  /\ pc = "txArm"
  /\ \/ left' = SendTicks
     \/ ~xferDone /\ left' = left
  /\ Goto("sendTest")
  /\ UNCHANGED <<relay, reportFlag, send, report, ring, xferDone, link,
                 inflight, idx, tmp, history, inputs>>

MainStep ==
  \/ SendTest \/ SendCopy \/ SendClear \/ PutReportData
  \/ FlagTest \/ FlagClear \/ ReadRelay \/ PutReport
  \/ TxCheck \/ TxDrain \/ TxMark \/ TxArm

-----------------------------------------------------------------------------
Next == MainStep \/ Handlers

Spec == Init /\ [][Next]_vars

\* The main loop never stops (the watchdog would reset the chip) and the
\* system tick keeps coming; nothing is assumed of the radio.
FairSpec == Spec /\ WF_vars(MainStep) /\ WF_vars(Tick)

-----------------------------------------------------------------------------
(* Properties.                                                             *)

MainLabels ==
  {"sendTest", "sendCopy", "sendClear", "putReport", "flagTest", "flagClear",
   "readRelay", "compose", "txCheck", "txDrain", "txMark", "txArm"}

IoTypeOK ==
  /\ relay \in RelayValues
  /\ shown \in RelayValues
  /\ reportFlag \in BOOLEAN
  /\ dirty \in BOOLEAN
  /\ lost \in BOOLEAN

SlotTypeOK ==
  /\ send \in [msg : RespKinds, len : Nat]
  /\ report \in [msg : RelayValues, len : {0, ReportLen}]

TxTypeOK ==
  /\ ring \in Seq(Bytes)
  /\ Len(ring) <= RingCap
  /\ xferDone \in BOOLEAN
  /\ left \in 0..SendTicks
  /\ link \in {"down", "up", "notify"}
  /\ inflight \in 0..TxBuffers

LoopTypeOK ==
  /\ pc \in MainLabels
  /\ idx \in Nat \ {0}
  /\ tmp \in Seq(Bit)
  /\ Len(tmp) <= NRelays
  /\ pc = "readRelay" => Len(tmp) < NRelays
  /\ pc = "compose" => Len(tmp) = NRelays

CountTypeOK ==
  /\ expiries \in Nat
  /\ inputs \in 0..MaxInputs

\* Every variable stays in its range: the ring within its capacity, the
\* SoftDevice within its buffers, and the loop that reads the relays
\* (ble_nus_app.c:73-77) within the relays there are.
TypeOK == IoTypeOK /\ SlotTypeOK /\ TxTypeOK /\ LoopTypeOK /\ CountTypeOK

\* No relay change goes unreported: while the flag is clear, the relays are
\* those of the last report composed, or the report being composed has read
\* every relay it has passed at its present value.  Holds although handlers
\* change relays between any two steps, because BLE_NUS_Task clears the flag
\* before it reads the first relay (ble_nus_app.c:72-77).
NoUnreportedChange ==
  ~reportFlag =>
    IF pc \in {"readRelay", "compose"}
    THEN \A r \in 1..Len(tmp) : tmp[r] = relay[r]
    ELSE relay = report.msg

\* A response that was not rewritten under the copy and met no full ring
\* stands in the ring as one whole frame when PutData releases the slot
\* (ble_nus_app.c:445-454).
ResponseFrameWhole ==
  pc = "sendClear" =>
    \/ dirty
    \/ Len(ring) = RingCap
    \/ LET f == Frame(send.msg, send.len)
       IN  /\ Len(ring) >= Len(f)
           /\ SubSeq(ring, Len(ring) - Len(f) + 1, Len(ring)) = f

\* Flow control: beyond the first, a notification is given to the SoftDevice
\* while another is outstanding only if the send guard has expired
\* (ble_nus_app.c:99-104, main.c:308-311).
OneOutstandingUnlessExpired == inflight <= 1 + expiries

\* When the loop has nothing left to report or to send, and no byte of the
\* last report was lost on the way, the peer has been shown the relays as
\* they are.
Quiet == ~reportFlag /\ send.len = 0 /\ report.len = 0 /\ ring = <<>>

PeerAgreesWhenQuiet ==
  (pc = "sendTest" /\ Quiet /\ ~lost) => shown = relay

\* The busy flag never sticks: a completion event that comes between the
\* call and `m_nus_xfer_done = true' (ble_nus_app.c:122-125) leaves it set
\* with nothing outstanding, and only the guard can clear it.
BusyFlagClears == xferDone ~> ~xferDone

\* Once the inputs have stopped, everything queued leaves the device's hands:
\* the slots and the ring are empty again and again.
DrainsWhenInputsStop == []<>Quiet
=============================================================================
