------------------------------- MODULE Phone -------------------------------
(***************************************************************************)
(* The phone application against the switch: MainPresenter, its screens    *)
(* and BluetoothLeService on one side, the requests' handlers, the report  *)
(* flag, the response slot and the byte stream on the other.               *)
(*                                                                         *)
(* The switch is BleNus seen from the phone: a turn of its main loop is    *)
(* the copy of the response, in two parts with requests coming in between, *)
(* and one action for the rest (BleNus has its steps); its ring never      *)
(* fills.  The phone takes one notification for one frame, while the       *)
(* switch cuts its stream every Mtu bytes: a byte keeps the value the      *)
(* phone tests, as far as the switch's data determine it.                  *)
(*                                                                         *)
(* Events posted to the phone's main thread are handled with the callback  *)
(* that posts them; a saved or deleted PIN is in the database at once.     *)
(***************************************************************************)
EXTENDS Integers, Sequences, FiniteSets

CONSTANTS
  Pins,      \* PINs the user types
  Default,   \* DEFAULT_PASSWORD
  Blank,     \* an empty edit box
  NoPin,     \* no device stored
  Used,      \* relays that change in the instance, among 1..4
  Mtu,       \* BLE_NUS_MAX_DATA_LEN (20)
  TxBuffers, \* notifications the SoftDevice can hold
  MaxInputs, \* bound on what the user does
  MaxDrops   \* bound on lost links and failed discoveries

ASSUME PhoneAssumption ==
  /\ Default \in Pins
  /\ NoPin \notin Pins /\ Blank \notin Pins /\ NoPin # Blank
  /\ Used \subseteq 1..4
  /\ {Mtu, TxBuffers} \subseteq Nat \ {0}
  /\ Mtu > 3   \* a notification holds a frame's status code
  /\ {MaxInputs, MaxDrops} \subseteq Nat

VARIABLES
  \* The switch.
  relay,    \* ioRelay_x_Status
  pin,      \* sysCfg.Password
  flag,     \* reportFlag
  slot,     \* BLE_NUS__ProtoSend, as the frames to queue: one or none
  copied,   \* the bytes of the slot already in the ring, while it is copied
  report,   \* BLE_NUS__ProtoReport, likewise
  ring,     \* BLE_NUS_TxRingBuf
  busy,     \* m_nus_xfer_done
  notify,   \* connected, with notifications enabled
  \* The link.
  up,       \* the write under way, if any: Android takes one at a time
  air,      \* notifications accepted and not yet handled by the phone
  \* The phone.
  app,      \* the activity: "splash", "pair" (MainOldActivity) or "main"
  screen,   \* its fragment: "home" (SetupFragment) or "pass"
  stored,   \* the PIN in the database
  text,     \* the new PIN's edit box
  saved,    \* history: the new PINs this activity has sent
  cache,    \* bCMDxStatus
  conn,     \* BluetoothLeService: see Conns
  timer,    \* discovery events posted for a second later
  \* History and bounds, read by the properties and the guards only.
  missed,   \* 0, or 1 + the notifications under way older than a report
            \* that will not get to the cache
  astray,   \* the stored PIN may lack the last change
  refused,  \* a login has been refused since the application started
  deaf,     \* the connection's login was not written, or its answer not read
  inputs, drops

switch == <<relay, pin, flag, slot, copied, report, ring>>
sender == <<busy, notify>>
user == <<app, screen, stored, text, saved, cache>>
service == <<conn, timer>>
history == <<missed, astray, refused, deaf>>
bounds == <<inputs, drops>>
vars == <<switch, sender, up, air, user, service, history, bounds>>

\* The service's GATT client: none before the service is bound ("closed") and
\* between close() and connectGatt() ("off"); connecting; connected;
\* connected with a failed discovery; services found; logged on, by the whole
\* answer of the switch.
Conns == {"closed", "off", "wait", "up", "bare", "found", "live"}
Linked == conn \in {"up", "bare", "found", "live"}

-----------------------------------------------------------------------------
(* Frames: an opcode and what the phone looks at of the payload.           *)

LOGON == 1
PIN == 7
STATUS == 9
CCCD == 0        \* the write of the notification descriptor, not a frame
Success == 0
ErrorPin == 85

Response(op, code) == [op |-> op, data |-> <<code>>]
\* The answer to an accepted PIN change: p, the PIN it stands for, is not sent.
PinAck(p) == [op |-> PIN, data |-> <<Success, p>>]
Report(v) == [op |-> STATUS, data |-> v]
IsReport(f) == Len(f.data) = 4

\* Header, payload (a report's begins with a four-byte PIN block), checksum.
FrameLen(f) == IF IsReport(f) THEN 12 ELSE 5
Bytes(f) == [i \in 1..FrameLen(f) |-> [of |-> f, at |-> i]]

\* What a byte may read as; a PIN block's or a checksum's byte as anything.
Reads(b) ==
  CASE b.at = 1 -> {202}
    [] b.at = 2 -> {b.of.op}
    [] b.at = 3 -> {FrameLen(b.of) - 4}
    [] IsReport(b.of) /\ b.at \in 8..11 -> {b.of.data[b.at - 7]}
    [] ~IsReport(b.of) /\ b.at = 4 -> {b.of.data[1]}
    [] OTHER -> {Success, LOGON, PIN, STATUS, ErrorPin}

IsPinAck(f) == f.op = PIN /\ f.data[1] = Success
HasReport(n) == \E i \in DOMAIN n : IsReport(n[i].of)
HasPinAck(n) == \E i \in DOMAIN n : IsPinAck(n[i].of)
HasLogon(n) == \E i \in DOMAIN n : n[i].of.op = LOGON

\* Notification n starts with the whole frame f.
Starts(n, f) == Len(n) >= FrameLen(f) /\ SubSeq(n, 1, FrameLen(f)) = Bytes(f)

-----------------------------------------------------------------------------
AllOff == [r \in 1..4 |-> 0]

Init ==
  /\ relay = AllOff
  /\ pin = Default
  /\ flag = FALSE
  /\ slot = <<>>
  /\ copied = 0
  /\ report = <<>>
  /\ ring = <<>>
  /\ busy = FALSE
  /\ notify = FALSE
  /\ up = <<>>
  /\ air = <<>>
  /\ app = "splash"
  /\ screen = "home"
  /\ stored \in {Default, NoPin}
  /\ text = Blank
  /\ saved = {}
  /\ cache = AllOff
  /\ conn = "closed"
  /\ timer = 0
  /\ missed = 1
  /\ astray = (stored = NoPin)
  /\ refused = FALSE
  /\ deaf = FALSE
  /\ inputs = 0
  /\ drops = 0

Input ==
  /\ inputs < MaxInputs
  /\ inputs' = inputs + 1
  /\ drops' = drops

\* What the properties remember of an action: a report the cache has not
\* taken in, and a PIN the database has not.
Recall(unseen, unheard) ==
  /\ missed' = IF unseen THEN 1 + Len(air') ELSE missed
  /\ astray' = (stored' # pin' /\ (astray \/ unheard))

\* The login of this connection comes to nothing.
Deafen(x) == deaf' = (deaf \/ (conn = "found" /\ x))

-----------------------------------------------------------------------------
(* The switch.                                                             *)

\* A touch button toggles its relay.
Press(r) ==
  /\ Input
  /\ relay' = [relay EXCEPT ![r] = 1 - @]
  /\ flag' = TRUE
  /\ UNCHANGED <<pin, slot, copied, report, ring, sender, up, air, user,
                 service, history>>

\* The ten-second hold, in another part of the main loop's turn.
PinReset ==
  /\ Input
  /\ copied = 0
  /\ pin' = Default
  /\ UNCHANGED <<relay, flag, slot, copied, report, ring, sender, up, air,
                 user, service, refused, deaf>>
  /\ Recall(FALSE, TRUE)

\* Faulty variants of Process: a PIN is acknowledged and not kept; a command
\* is not reported.
ProcessForgets(q) ==
  LET ok == q.pin = pin
      code == IF ok THEN Success ELSE ErrorPin
  IN  /\ relay' = IF ok /\ q.op \in 2..5 THEN [relay EXCEPT ![q.op - 1] = q.arg]
                  ELSE relay
      /\ pin' = pin
      /\ flag' = (flag \/ (ok /\ q.op \in (2..5) \cup {STATUS}))
      /\ slot' = IF ok /\ q.op \in (2..5) \cup {STATUS} THEN slot
                 ELSE IF ok /\ q.op = PIN THEN <<PinAck(pin')>>
                 ELSE <<Response(q.op, code)>>

ProcessUnreported(q) ==
  LET ok == q.pin = pin
      code == IF ok THEN Success ELSE ErrorPin
  IN  /\ relay' = IF ok /\ q.op \in 2..5 THEN [relay EXCEPT ![q.op - 1] = q.arg]
                  ELSE relay
      /\ pin' = IF ok /\ q.op = PIN THEN q.arg ELSE pin
      /\ flag' = (flag \/ (ok /\ q.op = STATUS))
      /\ slot' = IF ok /\ q.op \in (2..5) \cup {STATUS} THEN slot
                 ELSE IF ok /\ q.op = PIN THEN <<PinAck(pin')>>
                 ELSE <<Response(q.op, code)>>

\* BLE_NUS_ProcessData: commands and status requests with the right PIN are
\* answered by a report, everything else through the one response slot.
Process(q) ==
  LET ok == q.pin = pin
      code == IF ok THEN Success ELSE ErrorPin
  IN  /\ relay' = IF ok /\ q.op \in 2..5 THEN [relay EXCEPT ![q.op - 1] = q.arg]
                  ELSE relay
      /\ pin' = IF ok /\ q.op = PIN THEN q.arg ELSE pin
      /\ flag' = (flag \/ (ok /\ q.op \in (2..5) \cup {STATUS}))
      /\ slot' = IF ok /\ q.op \in (2..5) \cup {STATUS} THEN slot
                 ELSE IF ok /\ q.op = PIN THEN <<PinAck(pin')>>
                 ELSE <<Response(q.op, code)>>

\* The bytes of the response slot, to copy.
InSlot == IF slot = <<>> THEN <<>> ELSE Bytes(slot[1])

\* A response goes before it is copied; or is written over a copied one, and
\* cleared with it.
Overwritten == copied < Len(InSlot) /\ slot' # slot
Discarded == slot # <<>> /\ copied = Len(InSlot)

\* A write reaches the switch, in the middle of a copy too: the descriptor, or
\* a request.
Handle ==
  /\ up # <<>>
  /\ up' = <<>>
  /\ LET q == up[1] IN
     IF q.op = CCCD
     THEN /\ notify' = TRUE
          /\ UNCHANGED <<switch, history>>
     ELSE /\ Process(q)
          /\ UNCHANGED <<notify, copied, report, ring, stored>>
          /\ Recall(FALSE, \/ Overwritten /\ IsPinAck(slot[1])
                           \/ Discarded /\ pin' # pin)
          /\ Deafen(\/ Overwritten /\ slot[1].op = LOGON
                    \/ Discarded /\ q.op = LOGON)
          /\ refused' = (refused \/ slot' = <<Response(LOGON, ErrorPin)>>)
  /\ UNCHANGED <<busy, air, user, service, bounds>>

\* BLE_NUS_PutData, of the response as it is now: its header, or the rest.  A
\* request between two bytes of one part reads no different: headers differ in
\* their opcodes alone, and nobody reads the checksum.
Copy ==
  /\ copied < Len(InSlot)
  /\ copied' = IF copied < 3 THEN 3 ELSE Len(InSlot)
  /\ ring' = ring \o SubSeq(InSlot, copied + 1, copied')
  /\ UNCHANGED <<relay, pin, flag, slot, report, sender, up, air, user,
                 service, history, bounds>>

\* One turn of the main loop, the response copied.  BLE_NUS_Task clears it,
\* whatever it holds by now, queues the report and a new report, and
\* ble_nus_send_task sends up to Mtu bytes.
Turn ==
  LET queued == ring \o (IF report = <<>> THEN <<>> ELSE Bytes(report[1]))
      chunk == IF busy THEN <<>>
               ELSE SubSeq(queued, 1, IF Len(queued) < Mtu THEN Len(queued) ELSE Mtu)
      sent == chunk # <<>> /\ notify /\ Len(air) < TxBuffers
      lost == IF sent THEN <<>> ELSE chunk
  IN  /\ copied = Len(InSlot)
      /\ flag \/ queued # <<>>
      /\ ring' = SubSeq(queued, Len(chunk) + 1, Len(queued))
      /\ slot' = <<>>
      /\ copied' = 0
      /\ report' = IF flag THEN <<Report(relay)>> ELSE <<>>
      /\ flag' = FALSE
      /\ air' = IF sent THEN Append(air, chunk) ELSE air
      /\ busy' = (busy \/ sent)
      /\ UNCHANGED <<relay, pin, notify, up, user, service, refused, bounds>>
      /\ Recall(HasReport(lost), HasPinAck(lost))
      /\ Deafen(HasLogon(lost))

\* tNusSendTimeout expires before the completion event.
SendGuard ==
  /\ busy
  /\ busy' = FALSE
  /\ UNCHANGED <<switch, notify, up, air, user, service, history, bounds>>

-----------------------------------------------------------------------------
(* The link, and BluetoothLeService.                                       *)

\* Faulty variant of LinkLost: m_nus_xfer_done is left as it was.
LinkLostBusy(k) ==
  /\ up' = <<>>
  /\ air' = SubSeq(air, 1, k)
  /\ busy' = busy
  /\ notify' = FALSE

\* What is lost with the connection: the write under way, and notifications
\* but for the k that the phone's main thread already has.  The response
\* slot and the ring stay.
LinkLost(k) ==
  /\ up' = <<>>
  /\ air' = SubSeq(air, 1, k)
  /\ busy' = FALSE
  /\ notify' = FALSE

\* onConnectionStateChange, disconnected: an orderly end closes the client
\* and makes a new one, any other asks the old one to connect again.
Drop(clean, k) ==
  /\ drops < MaxDrops
  /\ drops' = drops + 1
  /\ Linked
  /\ LinkLost(k)
  /\ conn' = IF clean THEN "off" ELSE "wait"
  /\ deaf' = FALSE
  /\ UNCHANGED <<switch, user, timer, refused, inputs>>
  /\ Recall(\E i \in (k + 1)..Len(air) : HasReport(air[i]),
            \E i \in (k + 1)..Len(air) : HasPinAck(air[i]))

\* connect(mAddress) at the end of the callback.
Reconnect ==
  /\ conn = "off"
  /\ conn' = "wait"
  /\ UNCHANGED <<switch, sender, up, air, user, timer, history, bounds>>

\* onServiceConnected, getIkyDevice and connect.
Bind ==
  /\ app = "main"
  /\ conn = "closed"
  /\ conn' = "wait"
  /\ UNCHANGED <<switch, sender, up, air, user, timer, history, bounds>>

\* onConnectionStateChange, connected.  What the switch had queued is gone:
\* with notifications off, each turn of its main loop discards a chunk.
LinkUp ==
  /\ conn = "wait"
  /\ slot = <<>> /\ report = <<>> /\ ring = <<>>
  /\ conn' = "up"
  /\ UNCHANGED <<switch, sender, up, air, user, timer, history, bounds>>

\* Faulty variant of Discover: the event is not posted.
DiscoverSilent ==
  /\ conn = "up"
  /\ \/ /\ conn' = "found"
        /\ up' = <<[op |-> CCCD]>>
        /\ UNCHANGED <<timer, drops>>
     \/ /\ drops < MaxDrops
        /\ drops' = drops + 1
        /\ conn' = "bare"
        /\ UNCHANGED <<up, timer>>
  /\ UNCHANGED <<switch, sender, air, user, history, inputs>>

\* onServicesDiscovered: enableTXNotification, and an event a second later;
\* nothing at all when the discovery has failed.
Discover ==
  /\ conn = "up"
  /\ \/ /\ conn' = "found"
        /\ up' = <<[op |-> CCCD]>>
        /\ timer' = timer + 1
        /\ UNCHANGED drops
     \/ /\ drops < MaxDrops
        /\ drops' = drops + 1
        /\ conn' = "bare"
        /\ UNCHANGED <<up, timer>>
  /\ UNCHANGED <<switch, sender, air, user, history, inputs>>

\* writeRXCharacteristic: without the service an error is shown; a write
\* that Android refuses is logged, and nothing else.
Write(q) ==
  up' = IF conn \in {"found", "live"} /\ up = <<>> THEN <<q>> ELSE up

Request(op, arg) == [op |-> op, pin |-> stored, arg |-> arg]

\* Without a client the same call is a NullPointerException.
HasClient == conn \notin {"closed", "off"}

-----------------------------------------------------------------------------
(* The application.                                                        *)

AcksIn(s) == \E i \in DOMAIN s : HasPinAck(s[i])

\* The activity goes: the service is unbound and closes its client.  What it
\* has posted stays posted.
Leave(newStored, unheard) ==
  /\ app' = "splash"
  /\ stored' = newStored
  /\ cache' = AllOff
  /\ conn' = "closed"
  /\ deaf' = FALSE
  /\ LinkLost(0)
  /\ UNCHANGED <<switch, screen, text, saved, refused>>
  /\ Recall(TRUE, unheard)

\* The process ends, and what was posted in it; the user starts it again.
Dies ==
  /\ Leave(stored, AcksIn(air))
  /\ timer' = 0

\* SplashActivity: to the switch whose PIN is stored, or to pair with one.
Splash ==
  /\ app = "splash"
  /\ app' = IF stored = NoPin THEN "pair" ELSE "main"
  /\ screen' = "home"
  /\ text' = Blank
  /\ saved' = {}
  /\ refused' = FALSE
  /\ UNCHANGED <<switch, sender, up, air, stored, cache, service, missed,
                 astray, deaf, bounds>>

\* MainOldActivity: the user picks the switch and types its PIN.
Pair(p) ==
  /\ Input
  /\ app = "pair"
  /\ app' = "main"
  /\ stored' = p
  /\ screen' = "home"
  /\ UNCHANGED <<switch, sender, up, air, text, saved, cache, service, refused,
                 deaf>>
  /\ Recall(FALSE, TRUE)

InMain ==
  /\ Input
  /\ app = "main"
  /\ UNCHANGED <<switch, sender, air, app, stored, service, refused, deaf>>

\* onClickedCMD1..4: the opposite of what the button shows.
Tap(r) ==
  /\ InMain
  /\ screen = "home"
  /\ HasClient
  /\ Write(Request(r + 1, 1 - cache[r]))
  /\ UNCHANGED <<screen, text, saved, cache, missed, astray>>

\* A new SetupFragment, all its relays off until a report comes.
OpenHome ==
  /\ InMain
  /\ HasClient
  /\ screen' = "home"
  /\ cache' = AllOff
  /\ Write(Request(STATUS, 1))
  /\ missed' = 1 + Len(air)
  /\ UNCHANGED <<text, saved, astray>>

\* A new ChangePassFragment, the new PIN typed in or not.
OpenPass(p) ==
  /\ InMain
  /\ screen' = "pass"
  /\ text' = p
  /\ UNCHANGED <<up, saved, cache, missed, astray>>

\* The user changes the new PIN's box, with a request under way or not.
Type(p) ==
  /\ InMain
  /\ screen = "pass"
  /\ text' = p
  /\ UNCHANGED <<up, screen, saved, cache, missed, astray>>

\* OnClickedSave.
Save ==
  /\ InMain
  /\ screen = "pass"
  /\ text # Blank
  /\ HasClient
  /\ Write(Request(PIN, text))
  /\ saved' = IF up' # up THEN saved \cup {text} ELSE saved
  /\ UNCHANGED <<screen, text, cache, missed, astray>>

\* A request while the client is missing ends the process.
Crash ==
  /\ Input
  /\ app = "main"
  /\ ~HasClient
  /\ Dies

\* The event posted a second ago: eventConnect(STATE_DISCONVERED) and logon.
\* Only the main screen is told of it, the one there is by now.
LogonTimer ==
  /\ timer > 0
  /\ IF app # "main" \/ HasClient
     THEN /\ timer' = timer - 1
          /\ IF app = "main" THEN Write(Request(LOGON, 1)) ELSE up' = up
          /\ Deafen(timer = 1 /\ up # <<>> /\ up[1].op # LOGON)
          /\ UNCHANGED <<switch, sender, air, user, conn, missed, astray,
                         refused>>
     ELSE Dies
  /\ UNCHANGED bounds

\* A notification is taken for one frame (eventReceived).  The completion
\* event comes with it.
Received == Head(air)

Taken ==
  /\ air # <<>>
  /\ app = "main"
  /\ UNCHANGED bounds

\* The notification is a whole report, the last it holds, and the home screen
\* is there to show it.
Fresh ==
  /\ screen = "home"
  /\ IsReport(Received[1].of)
  /\ Starts(Received, Received[1].of)
  /\ ~HasReport(SubSeq(Received, 13, Len(Received)))

\* The phone stays where it is.
Stays ==
  /\ air' = Tail(air)
  /\ busy' = FALSE
  /\ missed' = CASE missed > 1 -> missed - 1
                 [] missed <= 1 /\ Fresh -> 0
                 [] missed <= 1 /\ ~Fresh ->
                      IF HasReport(Received) \/ Len(Received) > 11 THEN 1 ELSE missed
  /\ astray' = (stored # pin /\ (astray \/ HasPinAck(Received)))
  /\ UNCHANGED <<switch, notify, app, screen, stored, text, saved, timer,
                 refused>>
  /\ IF Starts(Received, Response(LOGON, Success))
     THEN /\ conn' = IF conn = "found" THEN "live" ELSE conn
          /\ deaf' = deaf
     ELSE /\ conn' = conn
          /\ Deafen(HasLogon(Received))

\* Opcodes and status codes that the phone may read.
Opcodes == IF Len(Received) > 1 THEN Reads(Received[2]) ELSE {}
Codes == IF Len(Received) > 3 THEN Reads(Received[4]) ELSE {ErrorPin}

\* A status report, shown by the home screen only.
ReceiveStatus ==
  /\ Taken
  /\ STATUS \in Opcodes
  /\ Stays
  /\ IF Len(Received) > 11 /\ screen = "home"
     THEN cache' \in {v \in [1..4 -> {0, 1}] : \A r \in 1..4 :
            \E x \in Reads(Received[7 + r]) : v[r] = 0 <=> x = 0}
     ELSE cache' = cache
  /\ UNCHANGED up

\* Faulty variant of ReceiveLogon: the test is the wrong way round.
ReceiveLogonSwapped ==
  /\ Taken
  /\ LOGON \in Opcodes
  /\ \/ Codes # {Success} /\ Stays /\ Write(Request(STATUS, 1)) /\ cache' = cache
     \/ Success \in Codes /\ Leave(NoPin, AcksIn(air)) /\ timer' = timer

\* The answer to a login: the status is asked for, or the device forgotten.
ReceiveLogon ==
  /\ Taken
  /\ LOGON \in Opcodes
  /\ \/ Success \in Codes /\ Stays /\ Write(Request(STATUS, 1)) /\ cache' = cache
     \/ Codes # {Success} /\ Leave(NoPin, AcksIn(air)) /\ timer' = timer

\* A whole acknowledgement of the PIN in use, and the box still holds the one
\* PIN this activity has sent.
HeardRight ==
  /\ Received[1].of = PinAck(pin)
  /\ Starts(Received, PinAck(pin))
  /\ saved = {text}

\* The answer to a PIN change: the screen, if it is still there, stores what
\* its box holds now, and the application starts again.
ReceivePin ==
  /\ Taken
  /\ PIN \in Opcodes
  /\ \/ /\ Success \in Codes
        /\ screen = "pass"
        /\ Leave(text, AcksIn(Tail(air)) \/ ~HeardRight)
        /\ timer' = timer
     \/ /\ Codes # {Success} \/ screen # "pass"
        /\ Stays
        /\ UNCHANGED <<cache, up>>

\* An answer that nothing is done about.
ReceiveOther ==
  /\ Taken
  /\ Opcodes \ {STATUS, LOGON, PIN} # {}
  /\ Stays
  /\ UNCHANGED <<cache, up>>

\* One byte: reading its opcode ends the process.
ReceiveStub ==
  /\ Taken
  /\ Opcodes = {}
  /\ Dies

-----------------------------------------------------------------------------
Receive ==
  ReceiveStatus \/ ReceiveLogon \/ ReceivePin \/ ReceiveOther \/ ReceiveStub

Connecting == Reconnect \/ Bind \/ LinkUp \/ Discover \/ LogonTimer

User ==
  \/ \E r \in Used : Press(r) \/ Tap(r)
  \/ \E p \in Pins : Pair(p) \/ Type(p)
  \/ \E p \in Pins \cup {Blank} : OpenPass(p)
  \/ PinReset \/ OpenHome \/ Save \/ Crash

Next ==
  \/ User
  \/ Handle \/ Copy \/ Turn \/ SendGuard
  \/ Connecting \/ Receive \/ Splash
  \/ \E clean \in BOOLEAN, k \in 0..Len(air) : Drop(clean, k)

Spec == Init /\ [][Next]_vars

\* The main loop never stops, and what the radio and Android have under way
\* comes to its end: a link, a write, a notification, a timer.
FairSpec ==
  Spec /\ WF_vars(Copy) /\ WF_vars(Turn) /\ WF_vars(Handle) /\ WF_vars(Receive)
       /\ WF_vars(Splash) /\ WF_vars(Reconnect) /\ WF_vars(Bind)
       /\ WF_vars(LinkUp) /\ WF_vars(Discover) /\ WF_vars(LogonTimer)

-----------------------------------------------------------------------------
(* Properties.                                                             *)

\* Every variable keeps its range: at most one response waits, bytes leave in
\* notifications of at most Mtu, and a switch that is not connected has none
\* outstanding.
TypeOK ==
  /\ {relay, cache} \subseteq [1..4 -> {0, 1}]
  /\ pin \in Pins
  /\ stored \in Pins \cup {Blank, NoPin}
  /\ text \in Pins \cup {Blank}
  /\ saved \subseteq Pins
  /\ {flag, busy, notify, astray, refused, deaf} \subseteq BOOLEAN
  /\ {Len(slot), Len(report), Len(up)} \subseteq {0, 1}
  /\ copied \in {0, 3, Len(InSlot)} /\ copied <= Len(InSlot)
  /\ Len(air) <= TxBuffers
  /\ \A i \in DOMAIN air : Len(air[i]) \in 1..Mtu
  /\ app \in {"splash", "pair", "main"}
  /\ screen \in {"home", "pass"}
  /\ conn \in Conns
  /\ timer \in Nat
  /\ missed \in 0..(1 + TxBuffers)
  /\ (~notify => ~busy) /\ (notify => Linked)

Quiet ==
  /\ ~flag
  /\ slot = <<>> /\ report = <<>> /\ ring = <<>>
  /\ up = <<>> /\ air = <<>>

\* When nothing is under way, the home screen shows the relays as they are,
\* unless the last report was lost with the link, came while another screen
\* was open, or shared a notification with an earlier frame, or a refusal and
\* the frames behind it were read as a report: a tap on a stale button asks
\* for the state its relay is in (SetupFragment.java:81).
CacheAgreesWhenQuiet ==
  (app = "main" /\ screen = "home" /\ Quiet /\ missed = 0) => cache = relay

\* When nothing is under way, the phone's PIN is the switch's, unless the
\* acknowledgement of a change was lost, sent behind another frame, overwritten
\* in its slot, or discarded or mixed with another response because one of the
\* two was being copied (ble_nus_app.c:446-454); found its screen gone, its box
\* edited or another PIN sent too; another frame, cut or mixed, has been read
\* as one; or the switch has been set back by hand, or paired with under the
\* wrong PIN (ChangePassFragment.java:114, 136-141).
PinsAgreeWhenQuiet ==
  (stored # NoPin /\ Quiet /\ ~astray) => stored = pin

\* The phone forgets its switch only if that has refused a login since the
\* activity started, if the notification begins in the middle of a frame (the
\* tail of a report reads as a refused login), or if its opcode and its status
\* code are of two responses, one written over the other as that was copied
\* (MainPresenter.java:261-265, ble_nus_app.c:446-454).
ForgetsOnlyIfRefusedOrGarbled ==
  [][(stored # NoPin /\ stored' = NoPin)
       => \/ refused
          \/ Received[1].at # 1
          \/ Received[2].of # Received[4].of]_vars

\* A phone that knows a switch comes to be logged on to it, over every lost
\* link, over the old client or a new one, through restarts of the application
\* and of its process: the switch has answered a login of this connection.
\* Unless a discovery fails; the last login event finds another write under
\* way, for Android then refuses its own and none is made again
\* (BluetoothLeService.java:159-167, 393); or the answer is overwritten, lost,
\* cut or sent behind another frame.
LogsOnAgain ==
  (stored # NoPin) ~> (conn \in {"live", "bare"} \/ deaf \/ stored = NoPin)
=============================================================================
