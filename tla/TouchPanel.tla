----------------------------- MODULE TouchPanel -----------------------------
(***************************************************************************)
(* The touch panel (io_control.c, main.c): every 50 ms an interrupt reads  *)
(* the touch sensor, filters its bits, toggles relays and runs the buzzer; *)
(* the main loop configures the sensor again when it has failed, sets the  *)
(* PIN back after ten seconds of touch, and restarts the board into its    *)
(* boot loader after a click sequence.                                     *)
(*                                                                         *)
(* Timers and BLE events are interrupt handlers of one priority, each one  *)
(* atomic action; the main loop is cut where it touches what they share.   *)
(* Time is counted in touch scans.                                         *)
(***************************************************************************)
EXTENDS Integers, FiniteSets

CONSTANTS
  NButtons,     \* touch buttons (3); button b toggles relay b
  NRelays,      \* relays (4)
  ClickButtons, \* buttons with a click timer (1 and 2)
  FilterCnt,    \* each button's filterCnt
  Clicks,       \* presses of the boot sequence (10)
  CountMax,     \* values of updateHighCnt, 256
  OnTime,       \* length of a beep, in scans (1)
  ConfirmTime,  \* and of the one that confirms a name or a PIN (2)
  OffTime,      \* pause after either (2)
  LongBeeps,    \* beeps of a warning (5)
  Hold,         \* the ten seconds of tButtonTouchTimeout
  Retry,        \* the three seconds of tTouchReinitTimeout
  MaxStall,     \* scans in one turn of the main loop
  MaxInputs,    \* bound on touches, releases and commands
  MaxFailures   \* bound on the sensor's failures

Buttons == 1..NButtons
Relays == 1..NRelays

ASSUME TouchPanelAssumption ==
  /\ NButtons \in Nat \ {0}
  /\ NRelays \in Nat
  /\ NButtons <= NRelays
  /\ ClickButtons \subseteq Buttons
  /\ FilterCnt \in [Buttons -> Nat \ {0}]
  /\ Clicks \in Nat \ {0}
  /\ CountMax \in Nat \ {0}
  /\ Clicks < CountMax
  /\ {OnTime, ConfirmTime, OffTime, LongBeeps, Hold, Retry, MaxStall}
       \subseteq Nat \ {0}
  /\ MaxStall < Hold   \* a turn of the main loop is short of ten seconds
  /\ {MaxInputs, MaxFailures} \subseteq Nat

VARIABLES
  finger,   \* the buttons being touched
  relay,    \* ioRelay_x_Status
  filter,   \* io_btn_x: bitOld, bitNew, highCnt, lowCnt, updateHighCnt
  buzzer,   \* io_buzzer: onTime, enable, times, counter, status
  isOK,     \* CY8CMBR3xxx_isOK
  clicking, \* buttons whose click timer runs
  boot,     \* bootModeFlag is BOOT_MODE_ACTIVE
  holdLeft, \* scans until tButtonTouchTimeout expires, 0 once it has
  retryLeft, \* scans until tTouchReinitTimeout expires
  pc,       \* where the main loop stands
  idx,      \* the button whose bitOld the loop reads next
  \* History and bounds, read by the properties and the guards only.
  level,    \* per button: its last sample, and how many alike came in a row
  armed,    \* buttons seen released for the filter's length since they toggled
  calm,     \* scans since one last saw a touch, up to a bound
  blind,    \* a scan has failed since one last saw a touch
  held,     \* scans since the panel was last known to be released, up to HoldSeen
  stall,    \* scans since the main loop began its turn
  inputs, failures

mainVars == <<pc, idx>>
timers == <<holdLeft, retryLeft>>
history == <<level, armed, calm, blind, held>>
bounds == <<stall, inputs, failures>>
vars == <<finger, relay, filter, buzzer, isOK, clicking, boot, timers,
          mainVars, history, bounds>>

-----------------------------------------------------------------------------
(* io_control.c.                                                           *)

FilterInit == [old |-> 0, new |-> 0, high |-> 0, low |-> 0, highs |-> 0]

\* Faulty variants of FilterStep: the first sample is taken at its word, and
\* one sample too many is waited for.
FilterStepFirst(f, v, cnt) ==
  LET high == IF v = 1 THEN f.high + 1 ELSE 0
      low == IF v = 1 THEN 0 ELSE f.low + 1
      new == CASE high >= 1 -> 1
               [] ~(high >= 1) /\ low >= cnt -> 0
               [] OTHER -> f.new
      rises == new = 1 /\ f.old = 0
  IN  [old |-> new, new |-> new,
       high |-> IF high >= 1 THEN 0 ELSE high,
       low |-> IF ~(high >= 1) /\ low >= cnt THEN 0 ELSE low,
       highs |-> IF rises THEN (f.highs + 1) % CountMax ELSE f.highs]

FilterStepLate(f, v, cnt) ==
  LET high == IF v = 1 THEN f.high + 1 ELSE 0
      low == IF v = 1 THEN 0 ELSE f.low + 1
      new == CASE high > cnt -> 1
               [] ~(high > cnt) /\ low >= cnt -> 0
               [] OTHER -> f.new
      rises == new = 1 /\ f.old = 0
  IN  [old |-> new, new |-> new,
       high |-> IF high > cnt THEN 0 ELSE high,
       low |-> IF ~(high > cnt) /\ low >= cnt THEN 0 ELSE low,
       highs |-> IF rises THEN (f.highs + 1) % CountMax ELSE f.highs]

\* IOFilter_Update with sample v.
FilterStep(f, v, cnt) ==
  LET high == IF v = 1 THEN f.high + 1 ELSE 0
      low == IF v = 1 THEN 0 ELSE f.low + 1
      new == CASE high >= cnt -> 1
               [] high < cnt /\ low >= cnt -> 0
               [] OTHER -> f.new
      rises == new = 1 /\ f.old = 0
  IN  [old |-> new, new |-> new,
       high |-> IF high >= cnt THEN 0 ELSE high,
       low |-> IF high < cnt /\ low >= cnt THEN 0 ELSE low,
       highs |-> IF rises THEN (f.highs + 1) % CountMax ELSE f.highs]

\* IO_ToggleSetStatus(&io_buzzer, on, 100, IO_TOGGLE_ENABLE, n).
BeepFor(b, on, n) ==
  [b EXCEPT !.on = on, !.counter = 0, !.enable = TRUE, !.times = n]

\* The beeps of every call but the two that confirm a name or a PIN.
Beep(b, n) == BeepFor(b, OnTime, n)

\* Faulty variant of BuzzerStep: it is never disabled.
BuzzerStepEndless(b) ==
  LET c == IF b.counter > 1 THEN b.counter - 1 ELSE 0
      n == IF c > 0 THEN [b EXCEPT !.counter = c]
           ELSE IF b.times > 0
           THEN [b EXCEPT !.counter = b.on + OffTime, !.times = @ - 1, !.status = 1]
           ELSE [b EXCEPT !.counter = 0, !.status = 0]
  IN  IF ~b.enable THEN [b EXCEPT !.status = 0]
      ELSE IF n.counter <= OffTime THEN [n EXCEPT !.status = 0]
      ELSE n

\* IO_ToggleProcess, one scan later.
BuzzerStep(b) ==
  LET c == IF b.counter > 1 THEN b.counter - 1 ELSE 0
      n == IF c > 0 THEN [b EXCEPT !.counter = c]
           ELSE IF b.times > 0
           THEN [b EXCEPT !.counter = b.on + OffTime, !.times = @ - 1, !.status = 1]
           ELSE [b EXCEPT !.counter = 0, !.enable = FALSE, !.status = 0]
  IN  IF ~b.enable THEN [b EXCEPT !.status = 0]
      ELSE IF n.counter <= OffTime THEN [n EXCEPT !.status = 0]
      ELSE n

-----------------------------------------------------------------------------
(* A board that has just started, its sensor configured or not.            *)

StartBuzzer(ok) ==
  [on |-> OnTime, enable |-> TRUE, times |-> IF ok THEN 2 ELSE LongBeeps,
   counter |-> 0, status |-> 0]

Init ==
  /\ finger = {}
  /\ relay = [r \in Relays |-> 0]
  /\ filter = [b \in Buttons |-> FilterInit]
  /\ isOK \in BOOLEAN
  /\ buzzer = StartBuzzer(isOK)
  /\ clicking = {}
  /\ boot = FALSE
  /\ holdLeft = Hold
  /\ retryLeft = Retry
  /\ pc = "boot"
  /\ idx = 1
  /\ level = [b \in Buttons |-> [bit |-> 0, run |-> FilterCnt[b]]]
  /\ armed = Buttons
  /\ calm = 0
  /\ blind = ~isOK
  /\ held = 0
  /\ stall = 0
  /\ inputs = 0
  /\ failures = 0

Input ==
  /\ inputs < MaxInputs
  /\ inputs' = inputs + 1

Up == pc # "restart"

-----------------------------------------------------------------------------
(* The user, and interrupt handlers.                                       *)

Touch(b) ==
  /\ Input
  /\ finger' = IF b \in finger THEN finger \ {b} ELSE finger \cup {b}
  /\ UNCHANGED <<relay, filter, buzzer, isOK, clicking, boot, timers,
                 mainVars, history, stall, failures>>

\* PACKET_OPCODE_CMD1..4: it beeps as many times as the relay's number.
Command(r, v) ==
  /\ Input
  /\ Up
  /\ relay' = [relay EXCEPT ![r] = v]
  /\ buzzer' = Beep(buzzer, r)
  /\ UNCHANGED <<finger, filter, isOK, clicking, boot, timers, mainVars,
                 history, stall, failures>>

\* nus_data_handler: the write that asks for the boot loader.
BootRequest ==
  /\ Input
  /\ Up
  /\ boot' = TRUE
  /\ buzzer' = Beep(buzzer, LongBeeps)
  /\ UNCHANGED <<finger, relay, filter, isOK, clicking, timers, mainVars,
                 history, stall, failures>>

\* PACKET_OPCODE_NAME, PACKET_OPCODE_PIN: they let a beep sequence finish.
ConfigRequest ==
  /\ Input
  /\ Up
  /\ buzzer' = IF buzzer.enable THEN buzzer ELSE BeepFor(buzzer, ConfirmTime, 1)
  /\ UNCHANGED <<finger, relay, filter, isOK, clicking, boot, timers, mainVars,
                 history, stall, failures>>

Sample(b) == IF b \in finger THEN 1 ELSE 0

Less(n) == IF n = 0 THEN 0 ELSE n - 1

\* How long a release can go unnoticed: the slowest filter, and two turns of
\* the main loop.
Grace ==
  CHOOSE g \in {FilterCnt[b] + 2 * MaxStall : b \in Buttons} :
    \A b \in Buttons : FilterCnt[b] + 2 * MaxStall <= g

\* A hold as long as the main loop sees it: it may arm the ten seconds in
\* one turn and test them in the next but one.
HoldSeen == Hold - 2 * MaxStall

OneMore(n) == IF n < HoldSeen THEN n + 1 ELSE n

\* The panel is known to be released: longer without a touch than one can go
\* unnoticed, and no scan has failed.
Released(c, failed) == c > Grace /\ ~failed

\* What a scan of the sensor does before the buzzer has its turn: filters
\* and, for each button newly pressed, its update handler.
ReadSensor ==
  LET next == [b \in Buttons |-> FilterStep(filter[b], Sample(b), FilterCnt[b])]
      pressed == {b \in Buttons : next[b].old = 1 /\ filter[b].old = 0}
  IN  /\ filter' = next
      /\ relay' = [r \in Relays |-> IF r \in pressed THEN 1 - relay[r] ELSE relay[r]]
      /\ clicking' = clicking \cup (pressed \cap ClickButtons)
      /\ buzzer' = BuzzerStep(IF pressed = {} THEN buzzer ELSE Beep(buzzer, 1))
      /\ level' = [b \in Buttons |->
           IF level[b].bit # Sample(b) THEN [bit |-> Sample(b), run |-> 1]
           ELSE [level[b] EXCEPT !.run = IF @ < FilterCnt[b] THEN @ + 1 ELSE @]]
      /\ armed' = {b \in Buttons \ pressed :
           b \in armed \/ (level'[b].bit = 0 /\ level'[b].run = FilterCnt[b])}
      /\ calm' = IF finger # {} THEN 0 ELSE IF calm > Grace THEN calm ELSE calm + 1
      /\ blind' = (blind /\ finger = {})
      /\ held' = IF Released(calm', blind') THEN 0
                 ELSE OneMore(held)

\* The part of a scan that every outcome of the sensor shares.
ScanTime ==
  /\ Up
  /\ pc = "configure" \/ stall < MaxStall
  /\ stall' = IF stall < MaxStall THEN stall + 1 ELSE stall
  /\ holdLeft' = Less(holdLeft)
  /\ UNCHANGED <<finger, boot, mainVars, inputs>>

\* timer_touch_event_handler: the sensor answers, ...
ScanReads ==
  /\ ScanTime
  /\ isOK
  /\ ReadSensor
  /\ retryLeft' = Less(retryLeft)
  /\ UNCHANGED <<isOK, failures>>

\* ... does not, or is waiting to be configured.  The retry's timeout may be
\* turns of the counter old at the first failure, and then says any time is
\* left (Timeout).
ScanFails ==
  /\ ScanTime
  /\ \/ isOK /\ failures < MaxFailures /\ failures' = failures + 1
     \/ ~isOK /\ UNCHANGED failures
  /\ \/ retryLeft' = Less(retryLeft)
     \/ isOK /\ retryLeft' \in 0..Retry
  /\ isOK' = FALSE
  /\ buzzer' = BuzzerStep(buzzer)
  /\ calm' = IF calm > Grace THEN calm ELSE calm + 1
  /\ blind' = TRUE
  /\ held' = OneMore(held)
  /\ UNCHANGED <<relay, filter, clicking, level, armed>>

\* timer_btn_1_event_handler, timer_btn_2_event_handler.
ClickTimer(b) ==
  /\ Up
  /\ b \in clicking
  /\ clicking' = clicking \ {b}
  /\ IF filter[b].highs = Clicks
     THEN boot' = TRUE /\ buzzer' = Beep(buzzer, LongBeeps)
     ELSE UNCHANGED <<boot, buzzer>>
  /\ filter' = [filter EXCEPT ![b].highs = 0]
  /\ UNCHANGED <<finger, relay, isOK, timers, mainVars, history, bounds>>

Handlers ==
  \/ \E b \in Buttons : Touch(b) \/ ClickTimer(b)
  \/ \E r \in Relays, v \in {0, 1} : Command(r, v)
  \/ BootRequest
  \/ ConfigRequest
  \/ ScanReads
  \/ ScanFails

-----------------------------------------------------------------------------
(* The main loop.                                                          *)

Goto(l) == pc' = l

panel == <<finger, relay, filter, clicking>>

\* Boot mode: the board restarts once the buzzer has finished.
LoopTop ==
  /\ pc = "boot"
  /\ Goto(IF boot /\ ~buzzer.enable THEN "restart" ELSE "retry")
  /\ stall' = 0
  /\ UNCHANGED <<panel, buzzer, isOK, boot, timers, idx, history, inputs,
                 failures>>

\* NVIC_SystemReset: the board starts again, the finger where it is.
Restart(ok) ==
  /\ pc = "restart"
  /\ relay' = [r \in Relays |-> 0]
  /\ filter' = [b \in Buttons |-> FilterInit]
  /\ isOK' = ok
  /\ buzzer' = StartBuzzer(ok)
  /\ clicking' = {}
  /\ boot' = FALSE
  /\ holdLeft' = Hold
  /\ retryLeft' = Retry
  /\ Goto("boot")
  /\ idx' = 1
  /\ level' = [b \in Buttons |-> [bit |-> 0, run |-> FilterCnt[b]]]
  /\ armed' = Buttons
  /\ calm' = 0
  /\ blind' = ~ok
  /\ held' = 0
  /\ stall' = 0
  /\ IF ok THEN UNCHANGED failures
     ELSE failures < MaxFailures /\ failures' = failures + 1
  /\ UNCHANGED <<finger, inputs>>

\* Faulty variant of RetryTest: it configures a sensor that is in use.
RetryTestAlways ==
  /\ pc = "retry"
  /\ Goto(IF retryLeft = 0 THEN "configure" ELSE "look")
  /\ idx' = 1
  /\ UNCHANGED <<panel, buzzer, isOK, boot, timers, history, bounds>>

\* if(CY8CMBR3xxx_isOK == false && CheckTimeout(&tTouchReinitTimeout) == ...)
RetryTest ==
  /\ pc = "retry"
  /\ Goto(IF ~isOK /\ retryLeft = 0 THEN "configure" ELSE "look")
  /\ idx' = 1
  /\ UNCHANGED <<panel, buzzer, isOK, boot, timers, history, bounds>>

\* Faulty variant of Configure: the flag is not set after a success.
ConfigureForgets(ok) ==
  /\ pc = "configure"
  /\ IF ok THEN UNCHANGED failures
     ELSE failures < MaxFailures /\ failures' = failures + 1
  /\ retryLeft' = Retry
  /\ Goto("look")
  /\ UNCHANGED <<panel, buzzer, isOK, boot, holdLeft, idx, history, stall,
                 inputs>>

\* CY8CMBR3xxx_Configure returns, with the sensor configured or not.
Configure(ok) ==
  /\ pc = "configure"
  /\ IF ok THEN UNCHANGED failures
     ELSE failures < MaxFailures /\ failures' = failures + 1
  /\ isOK' = ok
  /\ retryLeft' = Retry
  /\ Goto("look")
  /\ UNCHANGED <<panel, buzzer, boot, holdLeft, idx, history, stall,
                 inputs>>

\* The three tests of bitOld, one after the other until one fails.
Look ==
  /\ pc = "look"
  /\ Goto(IF filter[idx].old = 1 THEN "expire"
          ELSE IF idx < NButtons THEN "look" ELSE "arm")
  /\ idx' = IF idx < NButtons THEN idx + 1 ELSE idx
  /\ UNCHANGED <<panel, buzzer, isOK, boot, timers, history, bounds>>

\* Faulty variant of Arm: the ten seconds are not started again.
ArmNot ==
  /\ pc = "arm"
  /\ Goto("expire")
  /\ UNCHANGED <<panel, buzzer, isOK, boot, timers, idx, history, bounds>>

\* InitTimeout(&tButtonTouchTimeout): nobody touches the panel.
Arm ==
  /\ pc = "arm"
  /\ holdLeft' = Hold
  /\ Goto("expire")
  /\ UNCHANGED <<panel, buzzer, isOK, boot, retryLeft, idx, history, bounds>>

\* CheckTimeout(&tButtonTouchTimeout), then the buzzer's test.
Expire ==
  /\ pc = "expire"
  /\ Goto(IF holdLeft > 0 THEN "boot" ELSE "beepTest")
  /\ UNCHANGED <<panel, buzzer, isOK, boot, timers, idx, history, bounds>>

BeepTest ==
  /\ pc = "beepTest"
  /\ Goto(IF buzzer.enable THEN "resetPin" ELSE "beepOn")
  /\ UNCHANGED <<panel, buzzer, isOK, boot, timers, idx, history, bounds>>

\* IO_ToggleSetStatus, called from the main loop: a scan may come between
\* its stores.
BeepStore(from, to, b) ==
  /\ pc = from
  /\ buzzer' = b
  /\ Goto(to)
  /\ UNCHANGED <<panel, isOK, boot, timers, idx, history, bounds>>

BeepOn ==
  BeepStore("beepOn", "beepCounter", [buzzer EXCEPT !.on = OnTime])
BeepCounter ==
  BeepStore("beepCounter", "beepEnable", [buzzer EXCEPT !.counter = 0])
BeepEnable ==
  BeepStore("beepEnable", "beepTimes", [buzzer EXCEPT !.enable = TRUE])
BeepTimes ==
  BeepStore("beepTimes", "resetPin", [buzzer EXCEPT !.times = LongBeeps])

\* The default PIN comes back (ConfigStore), and the ten seconds start again.
ResetPin ==
  /\ pc = "resetPin"
  /\ holdLeft' = Hold
  /\ Goto("boot")
  /\ UNCHANGED <<panel, buzzer, isOK, boot, retryLeft, idx, history, bounds>>

MainStep ==
  \/ LoopTop \/ RetryTest \/ Look \/ Arm \/ Expire
  \/ BeepTest \/ BeepOn \/ BeepCounter \/ BeepEnable \/ BeepTimes \/ ResetPin
  \/ \E ok \in BOOLEAN : Configure(ok) \/ Restart(ok)

Next == Handlers \/ MainStep

Spec == Init /\ [][Next]_vars

\* The main loop never stops and the touch timer is repeated.
FairSpec == Spec /\ WF_vars(MainStep) /\ WF_vars(ScanReads \/ ScanFails)

-----------------------------------------------------------------------------
(* Properties.                                                             *)

Labels ==
  {"boot", "restart", "retry", "configure", "look", "arm", "expire",
   "beepTest", "beepOn", "beepCounter", "beepEnable", "beepTimes", "resetPin"}

\* Every variable keeps its range, the filters' counters below their limit
\* and the buzzer's within one beep and its pause among them.
TypeOK ==
  /\ finger \subseteq Buttons
  /\ relay \in [Relays -> {0, 1}]
  /\ \A b \in Buttons :
       /\ filter[b].old = filter[b].new
       /\ filter[b].old \in {0, 1}
       /\ filter[b].high \in 0..(FilterCnt[b] - 1)
       /\ filter[b].low \in 0..(FilterCnt[b] - 1)
       /\ filter[b].highs \in 0..(CountMax - 1)
  /\ buzzer \in [on : {OnTime, ConfirmTime}, enable : BOOLEAN, times : Nat,
                 counter : Nat, status : {0, 1}]
  /\ \E on \in {OnTime, ConfirmTime} : buzzer.counter <= on + OffTime
  /\ clicking \subseteq ClickButtons
  /\ {isOK, boot, blind} \subseteq BOOLEAN
  /\ holdLeft \in 0..Hold
  /\ retryLeft \in 0..Retry
  /\ pc \in Labels
  /\ idx \in Buttons

\* One touch, one toggle: a scan toggles a button's relay only with the last
\* of filterCnt samples that find it touched, and only if it has been found
\* released for filterCnt samples since the last time (io_control.c:74-114).
OneTogglePerTouch ==
  [][(ScanReads \/ ScanFails) =>
       \A b \in Buttons :
         relay'[b] # relay[b] =>
           /\ b \in armed
           /\ level'[b] = [bit |-> 1, run |-> FilterCnt[b]]]_vars

\* And no touch is passed over: a button found touched for filterCnt samples
\* has toggled since its last release.
NoTouchIgnored ==
  \A b \in Buttons :
    level[b] = [bit |-> 1, run |-> FilterCnt[b]] => b \notin armed

\* The I2C bus has one user: the scan reads the sensor only while the main
\* loop does not configure it, with nothing but the flag
\* CY8CMBR3xxx_isOK between them (main.c:516-530, 584-597).
BusExclusive == pc = "configure" => ~isOK

\* The PIN goes back to its default only at the end of a hold: in the ten
\* seconds before, but for the two turns of the main loop that it takes to
\* arm them, the panel has never been known to be released, that is without
\* a touch for longer than the filters and two turns take.  A failed scan
\* keeps bitOld as it was, and counts as a hold without a finger
\* (main.c:532-542).
PinResetNeedsTouch ==
  pc = "resetPin" => /\ held >= HoldSeen
                     /\ ~Released(calm, blind)

\* A beep sequence comes to its end once nobody starts another, one that the
\* main loop and a scan or a request have written at the same time included
\* (io_control.c:18-60, main.c:538); boot mode waits for it (main.c:508).
BuzzerEnds == buzzer.enable ~> ~buzzer.enable

\* A sensor that fails is in use again, once it answers (main.c:516-530).
SensorRecovers == ~isOK ~> isOK
=============================================================================
