# Touch switch: specifications, model checking and proofs

The repository holds a wall switch with touch buttons and Bluetooth LE (nRF51
firmware, S110 SoftDevice) and the Android application that drives it. This
directory models the firmware's own logic, and the application's side of the
protocol, in TLA+, checks them with TLC and proves with TLAPS every invariant,
action property and refinement that the passing runs check.

Short names used below (all under `src/firmware/nRF51_SDK_10.0.0`): `main.c`,
`ble_nus_app.c`, `system_config.c`, `io_control.c`, `lib/ringbuf.c` and
`lib/sys_tick.c` are those of `examples/ble_peripheral/iky_sswitch_3btn`;
`pstorage.c` is `components/drivers_nrf/pstorage/pstorage.c`, `ble_nus.c` is
`components/ble/ble_services/ble_nus/ble_nus.c`. Java files are those of
`src/android tdx/app/src/main/java/hdv/ble/tdx`.

## 1. Inventory

### The firmware's processes

* **The main loop** (`main.c:503-543`): watchdog, boot-mode reset, configuration
  save, sleep until an event, BLE task, send task, reset task, sensor
  re-initialisation, ten-second hold. It is the only sequential process.
* **Handlers**: BLE events, flash events, touch scan and timers. The
  SoftDevice handler is initialised with no scheduler (`main.c:367`) and
  `APP_TIMER_INIT` with none either (`main.c:821`), so all of them run in
  interrupts of the application's low priority: they exclude one another and
  interrupt the main loop anywhere. (The comment at `main.c:330` says otherwise.)
* **The SoftDevice**: accepts notifications and flash operations, reports
  both by events, and preempts handlers too.

No lock or critical section protects what handlers and the main loop share.

### Components

| Component | State | Operations | Hard behaviour | What makes it correct | Module |
|---|---|---|---|---|---|
| Command, report and send path: `ble_nus_app.c`, `main.c`, `ble_nus.c` | relays, report flag, two packet slots, transmit ring, busy flag and guard | requests, presses, `BLE_NUS_Task`, `ble_nus_send_task`, link and completion events | handlers between any two main-loop steps, lost and late completions, full ring, refused notifications | no change unreported, whole frames, flow control, peer shown the present relays, everything drains | `BleNus` |
| Transmit ring: `lib/ringbuf.c` | head, tail, cells | put, get, fill | wrap-around, empty against full | it is a bounded queue | `RingBuf`, `Fifo` |
| Timeouts: `lib/sys_tick.c`, `system_config.c:169-223` | counter, start, duration, checksum, restart flag | tick, arm, check, ask for a restart | counter wrap-around, a handler arming what the main loop checks | never early, late by whole turns of the counter and one unit at most, the restart follows | `Timeout`, `ResetTimeout` |
| Configuration store: `system_config.c`, `pstorage.c` | configuration in RAM and in flash, change mark, command queue, storage state machine | load, change, save, reset, flash events | flash events inside an enqueue, changes during a save, resets, failed operations | nothing forgotten, clear before store, one operation at a time, saves complete | `ConfigStore`, `SavedConfig` |
| Frame parser: `ble_nus_app.c:139-195` | parser state, receive buffer | one byte received | state kept across connections, odd lengths | frames recognised exactly, resynchronisation | `FrameParser` |
| Touch panel: `io_control.c`, `main.c:503-542, 582-728, 787-805` | filters, buzzer, click counts, sensor flag, two timeouts | scan, press, click timer, beep, re-initialise, hold, boot mode | main loop and scan share the buzzer and the sensor; the sensor fails | one toggle per touch, one user of the bus, PIN reset at the end of a hold only, everything started ends | `TouchPanel` |
| Phone: `BluetoothLeService.java`, `MainPresenter.java`, `SetupFragment.java`, `ChangePassFragment.java`, `Protocol.java`, `SplashActivity.java`, `MainOldActivity.java` | GATT client, posted events, screens, cached relays, stored PIN | connect, discover, log on, tap, change the PIN, receive, pair | lost links, refused writes, responses rewritten while copied, cut and merged frames, screens that come and go | phone and switch agree, the device is kept, the switch answers a login | `Phone` |

Not to be modelled: the bit-banged I2C driver (pure I/O), the ciphers and digests
(vendored; a PIN check passes when the PINs are equal), the unused files of `lib/`, the
vendor SDK and the boot loader, the phone's layout and injection code. PROJECT.json lists each
with its reason, and lists the hazards of the code at their lines.

### How they interact

A BLE write is parsed in the handler, which changes relays and sets the report
flag, or writes the response slot, or changes `sysCfg` and marks it. The main loop turns
the flag into a report in the report slot, moves both slots into the ring, and
moves the ring to the SoftDevice 20 bytes at a time; the completion event clears
the busy flag. The touch scan does to relays and flag what a command does. The
main loop turns the change mark into a clear and a store in the storage module's
queue, and flash events move that queue on. The phone writes one request at a
time, takes each notification for one frame, and keeps what it believes of the
relays and the PIN.

## 2. Modules

| Module | What it is |
|---|---|
| `BleNus` | commands, reports, framing, sending; `MCBleNus` instantiates it |
| `BleNusProofs` | its type invariant and four safety invariants, proved |
| `Fifo` | abstract specification of the ring: a bounded queue with return values |
| `RingBuf` | `lib/ringbuf.c`, with the refinement mapping to `Fifo`; `MCRingBuf` |
| `RingBufProofs` | the refinement, proved |
| `Timeout` | `lib/sys_tick.c`, with true time as a history variable |
| `TimeoutProofs` | its invariants and action property, proved |
| `SavedConfig` | abstract specification of saving: what is owed to flash, one erase and one program per save |
| `ConfigStore` | `system_config.c` with the storage module, with the refinement mapping to `SavedConfig`; `MCConfigStore` |
| `ConfigStoreProofs` | its safety invariants and the refinement, proved |
| `FrameParser` | `BLE_NUS_ParserPacket`, byte by byte |
| `FrameParserProofs` | all its properties, proved |
| `ResetTimeout` | the restart timeout that a handler and the main loop share; instantiates `Timeout` |
| `ResetTimeoutProofs` | its type invariant and when a restart may be early, proved |
| `TouchPanel` | `io_control.c` with the scan, the timers and the main loop's part; `MCTouchPanel` |
| `TouchPanelProofs` | all its safety properties, proved |
| `Phone` | the application against the switch, over the link; `MCPhone` |
| `PhoneProofs` | all its safety properties, proved |

Definitions that mutate another one ("Faulty variant of ...") stand before it
and belong to no specification: they show that the properties notice the bug.

### BleNus

| State | Code |
|---|---|
| `relay` | `ioRelay_1_Status` .. `ioRelay_4_Status` |
| `reportFlag` | bit `OUTPUT_REPORT_FLAG` of `reportFlag` |
| `send`, `report` | `BLE_NUS__ProtoSend`, `BLE_NUS__ProtoReport`: message and `length` |
| `ring` | `BLE_NUS_TxRingBuf`, as the bounded queue `RingBuf` is proved to be |
| `xferDone`, `left` | `m_nus_xfer_done`, time left in `tNusSendTimeout` |
| `link`, `inflight` | the SoftDevice's connection, notifications enabled, notifications outstanding |
| `pc`, `idx`, `tmp` | the main loop's position, the loop index of `PutData`, `tmpbuff` |
| `dirty`, `lost`, `shown`, `expiries` | history, for the properties only |

Each handler is one action, enabled at every `pc`. The main loop is cut where
it touches shared variables: `SendTest`, one `SendCopy` per byte and `SendClear`
are `PutData(ProtoSend)`, because a request may rewrite that slot under it;
`PutReportData` is `PutData(ProtoReport)` in one step, because only the main
loop uses that slot; `FlagTest`, `FlagClear` and one `ReadRelay` per relay
are `BLE_NUS_Task`; `TxCheck`, `TxDrain`, `TxMark`, `TxArm` are
`ble_nus_send_task`, with the completion event free to come between the call
and the mark. Neither the busy flag nor the slots are `volatile`; `TxArm` allows both outcomes of
the one test the compiler may fold.

Abstracted: the PIN check (a refused request is a request answered with an
acknowledgement), bytes (a byte is a position of a message), buzzer and LEDs.
The main loop's other tasks touch none of these variables. A reset returns to
`Init`. `RESET_PIN_STEP2` (`ble_nus_app.c:81-87`) is assigned nowhere, so
that branch is dead. `lost` marks that a byte may be missing at the peer: a
full ring, a refused notification, a disconnection. "The peer" reassembles the byte
stream; that the Android code takes a notification for a frame is `Phone`'s subject.

### RingBuf and Fifo

One action per function, both outcomes each, with the return value in `last`.
The mapping takes the cells from `tail`, `Fill` of them, as the abstract queue, and the
capacity is `Size - 1`. Only the main loop uses the transmit ring, so an
operation is one step.

### Timeout

`now` is `sysTickCounter32`, any value at first; `age` is the true time since
the timeout was armed, without the `turns` whole turns of the counter it contains: nothing makes
the main loop look at a timeout within one turn (49.7 days), and `tTouchReinitTimeout` is armed at
start and after a failed scan only and looked at while the sensor is out of use (`main.c:498, 516,
529`). `Elapsed` reproduces the wrap-around branch of `sys_tick.c:84`, which counts one too few.
The module covers timeouts that the main loop arms and checks.

### ResetTimeout

`tMcuResetTimeout` is armed by `ResetMcuSet` in a handler and again, then
checked, by `ResetMcuTask`. `InitTimeout` and `CheckTimeout` are cut into their loads
and stores (`time` and `sum` are what they have in registers), the handler's
`InitTimeout` is the one of `Timeout`, and the tick may come anywhere. Of the delays only
one second is used, and `MCU_RESET_IMMEDIATELY` and the other delays by nobody. `disturbed` remembers
that the last request met the main loop at work, or came after the check had found the timeout
over and before `NVIC_SystemReset`. `Tick`'s guard says that the main loop, which looks at this
timeout in every turn while a restart is asked for, does so within one turn of the counter.
A restart is back to `Init`.

### FrameParser

One action per state of the parser; `buf` is what `ProtoRecv_Buff` holds of this
frame and its length is `cnt`; `got` is the frame the last byte completed.
`heard` remembers the last bytes, as many as the longest frame has, and whether
each found the parser awaiting a start code. Nothing else resets the parser, so
connections need no action of their own: a cut frame is a stream. The `default` branch of
the switch is unreachable (`TypeOK`).

### TouchPanel

| State | Code |
|---|---|
| `finger` | the user: buttons being touched |
| `relay`, `filter`, `buzzer` | `ioRelay_x_Status`, `io_btn_x`, `io_buzzer` |
| `isOK`, `boot` | `CY8CMBR3xxx_isOK`, `bootModeFlag` |
| `clicking` | click timers running |
| `holdLeft`, `retryLeft` | time left in `tButtonTouchTimeout`, `tTouchReinitTimeout`, in scans |
| `pc`, `idx` | the main loop's position; the button whose `bitOld` it reads next |
| `level`, `armed`, `calm`, `blind`, `held`, `stall` | history, for the properties and the bounds |

A scan is `ScanReads` or `ScanFails`: filters, update handlers of the buttons newly
pressed, and the buzzer, in the code's order. The main loop is cut at every
access to what handlers share; its call of `IO_ToggleSetStatus` is three stores.
The touch bits are not `volatile`, but the loop calls functions between its reads. A click
timer fires any time after a press; it is restarted by the next one.
A restart sets everything but the finger back.

Abstracted: the red LED and the proximity channel; times in scans, so that a
beep of 50 ms is one scan, that of 100 ms with which a rename or a new PIN is confirmed
(`ble_nus_app.c:263, 287`) two, and the pause of 100 ms after either two. Notes: relay 4 has no
button, and its output pin is written at start only (`main.c:763-767`; the scan
drives pins 1 to 3, `main.c:625-650`). The firmware's
filter length is one sample for every button (`io_control.h:8`): the instance uses two so that the
counters count, and with one the faulty filter that believes its first sample would be the code's own.

### Phone

| State | Code |
|---|---|
| `relay`, `pin`, `flag`, `slot`, `report`, `ring`, `busy`, `notify` | the switch, as in `BleNus` |
| `copied` | how much of the slot `PutData` has put into the ring |
| `up` | the write under way: Android takes one at a time |
| `air` | notifications accepted by the SoftDevice and not yet handled |
| `app`, `screen`, `text` | the activity, its fragment, the new PIN's edit box |
| `stored`, `cache` | PIN in the database, relays shown by the home screen |
| `conn`, `timer` | the service's GATT client, discovery events posted for a second later |
| `missed`, `astray`, `refused`, `deaf`, `saved` | history, for the properties only |

A turn of the switch's main loop is two steps of `Copy` and one of `Turn` here; `BleNus` has all of
its steps. `Copy` puts the header of the response into the ring, then the rest, as the slot is at
that moment: a request that comes in between changes opcode and status code of one frame, one that
comes before the clearing (`length = 0`, `ble_nus_app.c:454`) loses its response. Two parts are
enough, because the phone reads no more of a response than its opcode and its status code. `Turn`
clears the slot, queues the report and a new report, and sends one chunk. The ring holds all that the
bounded inputs produce. A byte is a position in a frame, and
`Reads` gives what the phone may take it for: exact for headers, codes and relay values, any
of the values the phone tests for PIN blocks and checksums. So `Receive*` follow
`eventReceived` on whatever stands at bytes 1, 3 and 7 to 10 of a notification: an
answer merged with a report, or the tail of one. An event posted to the main thread is
handled with the callback that posts it, but for the notifications in `air` and
the login events of `timer`; database writes are one step. `LinkUp` waits until the switch has discarded what
it still had: it does so within a few main-loop turns, a connection takes longer.
`Crash`, `LogonTimer` and `ReceiveStub` include the exceptions that end the process, and with it what
it had posted (`Dies`); an activity that only leaves closes the client, and the posted login events
stay (`Leave`). `conn` becomes "live" only with the switch's whole answer to a login; `deaf` marks a connection
whose last login Android refused to write, or whose answer was overwritten, lost, cut or merged.
`saved` is the set of new PINs the activity has sent: a second change may be sent while
the answer to the first is under way, and the answer to either stores the box's text.

The acknowledgement of a PIN change carries, for the properties, the PIN it acknowledges. Renames,
versions and smart keys are answered like any other request and leave the phone's state alone.

### ConfigStore

| State | Code |
|---|---|
| `cfg`, `flash` | `sysCfg` and its page; fields PIN, name, smart key |
| `change`, `reset`, `bootMode` | `system_config_change`, `sysResetMcuFlag`, `bootModeFlag` |
| `copying` | a handler in the middle of copying a field |
| `q` | `m_cmd_queue`, `m_state`, the retry count, the busy bit of `m_flags`, and whether `m_num_of_bytes_written` is set (`written`) |
| `op` | the SoftDevice's flash operation |
| `pc`, `job`, `index`, `loaded` | the main loop; the command being queued; `write_index`; the count as `count++` read it |

The storage module is functions of `[q, op]` (`Process`, `End`,
`Reissue`, `OnSuccess`, `OnFailure`), so that a chain of calls within one event is one
composition. `cmd_queue_enqueue` is cut into its loads and stores, since the
flash event runs in an interrupt; `EnqKick` goes as far as the flash request, and `EnqWritten` sets
`m_num_of_bytes_written` after it (`pstorage.c:366-370`): an event in between takes the store for
unfinished and programs the page once more. A handler does both in one step (`Counted`), for events
exclude one another. `Load` has the three checks of `CFG_Load`: a blank page is two of them at once,
because name and PIN are stored together, and a smart key whose time is out of range (`OutOfRange`) gets
the default and is saved with everything else. A key torn by a rewritten source may have a
time in range or not. `EventsInEnqueue` says whether an event may come
there; with it the count can go wrong (`ConfigCount`), without it liveness holds
(`ConfigLiveness`). The queue has room for two commands at least, a clear and a store.

For `SavedConfig`, `Memory` is the configuration in use, blank between a restart and
`CFG_Load`; `Owed` says that a PIN or a name is marked, half copied or about to be marked; `Due` is what is
still to come of a save: its erase, its program, or the second programming above. `Perform` is its
Erase, Program and Again, `ChangeClear` its Begin, a reset of any kind its Crash, `Load` its Load; the queue
and its events are stuttering steps, but for an event that ends a store (Again, which may leave the page alone).

Abstracted: the checksum (`system_config_calc_checksum` sums
`sizeof(pointer) - sizeof(crc)`, that is no bytes, and `system_config_is_valid`
returns 1, so it affects nothing); the timing of resets (any time); page
operations cut in the middle by a loss of power; the configuration is one
word-aligned page programmed in one write; of the flash API's errors only BUSY.
Multi-page and swap-based commands are not issued by this firmware.

## 3. Runs

| Run | Question | Result |
|---|---|---|
| `BleNusSafety` | what holds of reports, frames and sending under every interleaving? | 5 invariants, 1.6 million states |
| `BleNusLiveness` | does the send path get over lost completions and drain? | 2 temporal properties, 188 thousand states |
| `ConfigSafety` | is a configuration ever forgotten, or the flash misused? | 4 invariants, refinement, 1.4 million states |
| `ConfigLiveness` | when events spare the enqueue, is the count right, when is the page blank, and does a change get to flash? | 2 invariants, 1 temporal property, 61 thousand states |
| `ConfigCount` | is the pending count right? | **violated**, see findings |
| `ConfigSource` | is the source of a store left alone? | **violated**, see findings |
| `RingBuf` | is the ring a bounded queue? | refinement, 2 432 states |
| `Timeout` | are timeouts right across the wrap-around? | 2 invariants, 1 action property, 31 thousand states |
| `FrameParser` | which frames does the parser recognise, in any stream? | 4 invariants, 1.9 million states |
| `ResetTimeout` | does a rename's restart come, and when? | 2 invariants, 1 temporal property, 184 thousand states |
| `TouchPanel` | what do touches, the sensor and the buzzer come to, under every interleaving? | 4 invariants, 1 action and 2 temporal properties, 458 thousand states |
| `Phone` | when do phone and switch agree? | 3 invariants, 1 action and 1 temporal property, 641 thousand states |

**Properties of BleNus.** `NoUnreportedChange`: with the flag clear, the relays
are those of the last report, or of the one being composed as far as it has been
read. `ResponseFrameWhole`: a response copied undisturbed and without meeting a
full ring is in the ring as one frame. `OneOutstandingUnlessExpired`: flow
control. `PeerAgreesWhenQuiet`: nothing left to send and nothing lost means the
peer has seen the present relays. `BusyFlagClears` and `DrainsWhenInputsStop`:
progress.

**Properties of ConfigStore.** `SavedWhenSettled`: nothing marked and nothing
pending means flash holds the PIN and the name in use; "pending" is the module's own count, as
`CFG_Save_Task` reads it. `OneFlashOperationAtATime`, `QueueHasRoom`: the flash is
used in order, which also shows the module's refusal path is never needed.
`ImplementsSavedConfig`: the queue with its events and failures is the abstract saving; in
particular a store finds the page erased, or is the second programming of one that did.
`BlankOnlyWhileSaving` does not ask the count: the page is blank only while the store of a save is
being queued, while the storage module is erasing or storing, or after it has given up. It
is checked without events in the enqueue, for one of those can leave the store where the module
does not look for it, and the page blank with nothing under way (see findings).
`CountIsPending`: the count is right, unless an event comes inside an enqueue (violated by
`ConfigCount`, holds in `ConfigLiveness`). `EventuallySaved`: progress. The smart key is left out of `SavedWhenSettled`: the code
does not mark it for saving (`ble_nus_app.c:388-395`).

**Properties of Timeout.** `NeverEarly`: an answer of 0 means that the time has passed.
`TimeLeftWithinTurn`: any other answer is the time left in the counter's present turn, or one unit more
past a wrap-around. So a timeout looked at within a turn is seen over at most one unit late, and one that
nobody looked at for longer can be taken for a fresh one.

**Properties of FrameParser.** `NothingInvented` and `NothingMissed`: the parser
recognises a frame exactly where a well-formed one (defined on the bytes
received, not on the parser) has just ended, if its start code was awaited.
`ResyncsWithinAFrame`: what a cut frame swallows is bounded.

**Properties of ResetTimeout.** `EarlyOnlyIfDisturbed`: a restart earlier than a
second after the last rename needs the two to have met inside `InitTimeout` or
`CheckTimeout` (it can then come at once: the checksum does not match), or the rename to have come
between the check's answer and the reset (`system_config.c:213-215`).
`RestartFollows`: it always comes, although the main loop overwrites the flag.

**Properties of TouchPanel.** `OneTogglePerTouch` and `NoTouchIgnored`: relays
against the samples, counted independently of the filters. `BusExclusive`: the
flag keeps the scan off the bus. `PinResetNeedsTouch`: the PIN is reset only when the panel has not
once been known to be released for the length of the hold, less the two turns of the main loop that may
pass before it notices a touch: `held` counts the scans since. "Known to be released" is no touch for longer
than filters and two turns take; a failed scan keeps `bitOld` as it was, so that a sensor which fails
under a finger holds without one (`blind`). `BuzzerEnds`, `SensorRecovers`: progress,
although the buzzer is rewritten under the scan's feet.

**Properties of Phone.** `CacheAgreesWhenQuiet` and `PinsAgreeWhenQuiet`: when
nothing is under way, the screen shows the relays and the stored PIN is the switch's; the
history variables name exactly the cases where the code gives no such promise, an acknowledgement
discarded or mixed during its copy among them.
`ForgetsOnlyIfRefusedOrGarbled`: the device is deleted after a refused login only,
by the tail of a cut report, or by a notification whose opcode and status code are of two responses.
`LogsOnAgain`: a lost connection is made again, by either of the service's two ways, a crash on
the way included, and the switch answers a login of it; unless the discovery fails or the connection is `deaf`.

### Bounds, and why they are enough

* `BleNusSafety`: 2 relays, one with a button, 6 inputs, responses of 1 and 2 bytes, ring of 9, chunk of
  5, 2 SoftDevice buffers, a guard of 1 tick. A frame (5 or 6 bytes) is cut by a chunk and the
  ring overflows with the second frame; two relays are enough for one to change
  behind the reader and one ahead; six inputs allow connect, enable, and four
  events racing each other. `BleNusLiveness` has 5 inputs.
* `ConfigSafety`: 2 values besides the default, a smart key out of range, 3 inputs, 2 failures, 2 tries, a
  queue of 3. The second save wraps around the queue, a failed operation is
  retried and exhausts its tries, changes overlap a save, and a reset follows. `Permutations`
  symmetry over the two values: no action or invariant tells them apart.
* `ConfigLiveness`: one failure, fewer than the two tries. No symmetry.
* `RingBuf`: 5 cells of 2 bytes: every head and tail, every content.
* `Timeout`: 32 counter values advanced by 3, so that the counter meets the
  wrap-around at every phase; durations 0, short, and nearly a whole turn. A timeout is followed for two more
  turns (`MaxTurns`): a third would repeat the second.
* `FrameParser`: five byte values and a buffer of 2: payloads of no, one, two and too
  many bytes, sums that wrap, start codes anywhere; `heard` holds a longest frame.
* `ResetTimeout`: a counter of 8 wraps within three delays; three requests, so that
  one can meet the check of a timeout that another has armed during the arming of the first.
* `TouchPanel`: one button and one relay, so that liveness is checked in minutes (the safety
  properties are proved for any number); three
  inputs: a touch, its release and a command or boot request in between; one failure of the
  sensor; two clicks stand for ten. One beep stands for five: a second one repeats it.
* `Phone`: relay 3 changes, the one whose value stands where a cut report's opcode is
  read; two PINs; three inputs of the user (a touch, a change of screen and a tap; a PIN
  typed, changed and saved) and one lost link or failed discovery; the
  SoftDevice's buffers and the 20-byte limit as they are in effect.
* `MaxInputs`, `MaxFailures`, `MaxRequests`, `MaxDrops`, `MaxStall` bound the environment only; `Tick`, completions
  and main-loop steps are never bounded.

### Fairness

`BleNus`: weak fairness of the main loop (the watchdog of `main.c:425-436` resets
a board whose loop stops, and the 10 ms tick ends every sleep) and of the tick (a
repeated hardware timer). None of completion events, links or requests: the
properties hold with every completion lost. `ConfigStore`: weak fairness of the
main loop, of the end of a handler that has begun, of the SoftDevice performing
or failing what it accepted, and of its event. `TouchPanel`: weak fairness of the main
loop and of the scan (a repeated timer); none of click timers, touches or commands.
`ResetTimeout`: the main loop and the tick. `Phone`: the main loop, and the end
of what the radio and Android have under way (a connection attempt, a discovery,
a write, a notification, the posted timer); none of the user, of `SendGuard` or of
lost links. The one thing it asks of the user is to open an application that has crashed again (`Splash`).
Inputs are bounded: nobody rings the buzzer for ever.

### Deadlock

Checked in every run but `Phone`, where the phone and the switch may both rest
once the user's inputs are over.

## 4. Proofs

TLAPS proves every invariant, action property and refinement of the passing runs,
for every value of the constants. Each inductive invariant was checked with TLC
before it was proved.

**BleNus.** `TypeCorrect`: `TypeOK` is inductive as it stands; `LoopTypeOK` carries
the relation between `pc` and the relays read so far that the bound on `tmp` needs.
`Reported` (`NoUnreportedChange`): inductive with `TypeOK`. `FlowControl`
(`OneOutstandingUnlessExpired`): `FlowInv` adds that what is outstanding beyond the
expiries is accounted for by the busy flag or by the step about to set it, that past
the test the flag is clear, and that a dropped link has nothing outstanding.
`ResponseWhole` (`ResponseFrameWhole`): `CopyInv`, while a slot is copied
undisturbed, the bytes copied so far are the tail of the ring. `PeerAgrees`
(`PeerAgreesWhenQuiet`): `ShownInv`, when a report is queued and nothing was lost,
the last report in the ring, or else what the peer was shown, is the last one
composed; `NoUnreportedChange` gives that this one has the present relays.

**RingBuf.** `RingTypeCorrect`, `RingImplementsFifo`: one lemma per operation, over
the contents as a sequence.

**Timeout.** `TimeoutNeverEarly`, `TimeoutLateByTurns` (`TimeLeftWithinTurn`): the counter is the start
plus the true time, modulo the width (`Tracks`), which gives
`Elapsed \in {age, age - 1}` with `age` the true time in the present turn, however many turns there were.
`TimeoutTypeCorrect` is part of it.

**ResetTimeout.** `ResetTypeCorrect`; `RestartNotEarly` (`EarlyOnlyIfDisturbed`):
`Armed` bounds how far the counter is from the start when the last request did not meet
the main loop at work; when the restart is decided the whole delay has passed, or a request has met it.

**ConfigStore.** `ConfigInvariant` is the conjunction of the types, `QueueInv` and
`FlashInv`. `QueueInv` lists the shapes of the command queue at each point of the main
loop, those left by an event inside an enqueue included: a store where the module does
not look for it, a count with nothing behind it. `FlashInv` says what the page holds:
once no store is to come the PIN and the name in use, or the difference is marked; from
the end of the erase to the store, nothing; `Twice`, a store that is programmed again. `OneFlashOperation`,
`RoomForSave` and `ConfigSaved` follow. `CountRight` and `BlankOnlyDuringSave` prove
`CountIsPending` and `BlankOnlyWhileSaving` when `EventsInEnqueue` is false (`Undisturbed`: without such events only
the right shapes are left), so that an event there is the only cause of the finding.
`StoreImplementsSavedConfig`: each step is one of `SavedConfig` or leaves it alone, one
lemma per group of steps, from `ConfigInv` and `Fresh` (a save begins with the mark set
and a page that is not blank). `RestartFindsConfig` is drawn from the abstract specification alone.

**FrameParser.** `ParserTypeCorrect`, `ParserResyncs`: `Placed` says where in memory the
start code of the frame under way is (`Inside` bytes back) and that some byte in memory
was awaited. `ParserInventsNothing`, `ParserMissesNothing`: `Recorded`, what is kept
of the frame under way is what was received; `Tracked`, an awaited start code
followed by a frame so far is the frame under way. `SumIsAdds` shows that the parser's running
sum is the sum of the payload, which is defined recursively: of the lengths for which it
is not, the least is considered (`Least`).

**TouchPanel.** `PanelTypeCorrect`; `PanelBusExclusive`, inductive as it stands;
`PanelNoTouchIgnored`, `PanelOneTogglePerTouch`: `FilterInv` ties each filter to the
run of equal samples it has seen (`Follows`; `StepFollows` is one call of
`IOFilter_Update`) and the right to toggle to `bitOld`. `PinResetOnlyByTouch`
(`PinResetNeedsTouch`): `CalmInv`, without a touch a filter has seen nothing but rest for as long
as it remembers, and the main loop acts on a touch only while the calm is shorter than
some filter and its own stall; `Greatest` shows that there is a slowest filter, which `Grace` needs. `HoldInv` adds that
`held` keeps up with the timeout of the hold, which is armed again whenever the loop finds the panel released.

**Phone.** `PhoneTypeCorrect` (`Types`). `ForgetsOnlyIfRefused`
(`ForgetsOnlyIfRefusedOrGarbled`): `Coherent`, within the ring and within each notification the positions of the
bytes follow one another as in frames, those of a frame copied in two parts included, and a notification that begins with a header holds a
status code; `Trusted`, without a refused login no refusal is on the way. `PinsAgree`
(`PinsAgreeWhenQuiet`): `AcksSaved`, every acknowledgement of a PIN on the way is of one this activity sent;
`AckComing`, while the two PINs differ an acknowledgement is still to come. `CacheAgrees`
(`CacheAgreesWhenQuiet`): `ReportsCurrent`, with the flag clear the newest report, wherever it
is on the way, has the present relays, and so has the cache when none is on the way.

They rest on the modules' named assumptions only, which TLC evaluates in the runs:
positive sizes and capacities; buttons among the relays, and as many relays as buttons;
responses distinct from reports, of positive length; a queue of at least two commands;
a notification of more than three bytes; the tick interval and the restart delay below
the counter's width; filter lengths positive; a buffer smaller than a byte's range; fewer clicks
than the counter holds; the bounded stall of the main loop (`MaxStall`) shorter than the hold.

Only model-checked: the liveness properties (TLAPS does neither ENABLED nor fairness)
and the two violations. The library's induction theorems cannot be instantiated with
the provers at hand; where a fact needs induction over numbers (a recursive sum, the
greatest of finitely many), it is proved from the least counterexample. No module declares a
recursive operator.

## 5. Findings

* **The pending count can stick** (`ConfigCount`, `pstorage.c:655`).
  `m_cmd_queue.count++` in the main program can be interrupted between load and
  store by the flash event that decrements the count. The count is then one too
  high although the queue is empty, against `pstorage.h:286-287`, and
  `CFG_Save_Task` (`system_config.c:159`) saves nothing more until a reset. If the event
  comes between the two loads of the index (`pstorage.c:642`), the store is queued where the
  module does not look for it and the page stays blank: a reset then gives the defaults.
  `CountRight` shows that without events inside an enqueue the count is right.
* **A store's source is rewritten while pending** (`ConfigSource`,
  `system_config.c:75`), against the warning of `pstorage.h:192-195`. The page
  may hold a half-copied field until the next save; for a PIN or a name,
  `SavedWhenSettled` shows that the mark set by the same request brings that save
  about. A smart key sets no mark.

Observations, of which no doc, comment or test says otherwise:

* A report of 12 bytes behind other frames is cut by the 20-byte limit, and the
  phone takes its tail for a frame. Of two reports queued while a notification is
  outstanding, the second is cut before relay 2's value: relay 3's, when on, then
  stands where the opcode is read, as `OPCODE_LOGON`, and the checksum where the
  status code is. Unless that is zero the phone deletes the device ("Sai mã pin!").
  `ForgetsOnlyIfRefusedOrGarbled` allows for it because the code does it.
* A request handled while the response to another is copied loses its own response, or mixes the two
  (`ble_nus_app.c:446-454`, no lock and no copy). Two consequences at the phone: the acknowledgement of a new
  PIN never comes, and phone and switch have different PINs; or the opcode of a login
  stands before the code of a refusal to another request, made with a PIN that the
  hold has reset meanwhile, and the phone deletes the device although no login was refused.
* The event of a store that comes between `sd_flash_write` and the setting of `m_num_of_bytes_written`
  (`pstorage.c:366-370`) makes `store_sub_state_sm_run` take the store for unfinished and program the page a
  second time, with what the configuration is by then: a field changed in between is the bitwise
  mixture of both values until the next save, and so is a smart key, for which no save is marked.
  A smart key torn in this way whose time is in range is accepted by `CFG_Load` and never repaired.
* A tail of one byte makes `eventReceived` read past the array (`MainPresenter.java:225`).
* A failed discovery is never repeated (`BluetoothLeService.java:157`), and a login
  refused because another write is still under way is not either:
  `conn` is then "bare", or "found" with `deaf` set.
* The event posted a second after a discovery is not cancelled when the activity goes
  (`BluetoothLeService.java:159, 296-308`): if a new activity is there when it fires and its service has no
  client yet, the login it makes is a `NullPointerException`.
* A touch re-initialisation timeout that nobody looks at for a whole turn of the counter is
  taken for a fresh one (`main.c:516`): a sensor that first fails then may be retried up to three seconds later.
* `eventUpdatePin` stores the box's present text, not what it sent
  (`ChangePassFragment.java:139`).
* A rename that meets the main loop inside `CheckTimeout`, or comes between its answer and the reset,
  can restart the board at once, before the changed name is in flash: `ConfigStore` takes a restart to come at any time.

## 6. Not modelled, and why

* The I2C driver, LEDs and the proximity channel: input and output without protocol state.
* Ciphers and digests: vendored. The report's PIN block is sealed in the main loop
  while a handler may rewrite the PIN; the phone never reads the block.
* `pstorage.c`'s swap, raw mode and multi-page stores, and `ble_nus.c` beyond what
  is used: not reached from this firmware. The rest of the SDK and the boot loader are
  third-party code: most of the repository's lines are theirs.
* The rename, version and smart-key screens, scanning, account and layout code: they keep no
  state that has to agree with the switch.
* A change of address, a second phone and bonding: the code has no handling of them.

## 7. Plan

Every safety property checked is proved. Next, in this order:

* an abstract specification of the path from a relay to the peer (what is shown is always a
  state the relays have been in, and the last one once quiet), implemented by `BleNus`;
* the abstract timeout (a deadline and true time) that `Timeout` implements;
* what has no property: a discovery that fails, the storage module's error state, the exact count of ten presses of
  the boot sequence (`main.c:789`).
