--------------------------- MODULE TouchPanelProofs ---------------------------
(***************************************************************************)
(* Proofs about TouchPanel, for every number of buttons and relays, every  *)
(* filter length and every timing.                                         *)
(***************************************************************************)
EXTENDS TouchPanel, WellFoundedInduction, TLAPS

-----------------------------------------------------------------------------
(* One user of the I2C bus.                                                *)

LEMMA BusHandlers ==
  ASSUME BusExclusive, Handlers
  PROVE  BusExclusive'
<1> USE DEF BusExclusive, mainVars
<1>1. CASE \E b \in Buttons : Touch(b) \/ ClickTimer(b)
  BY <1>1 DEF Touch, ClickTimer
<1>2. CASE \E r \in Relays, v \in {0, 1} : Command(r, v)
  BY <1>2 DEF Command
<1>3. CASE BootRequest
  BY <1>3 DEF BootRequest
<1>4. CASE ConfigRequest
  BY <1>4 DEF ConfigRequest
<1>5. CASE ScanReads
  BY <1>5 DEF ScanReads, ScanTime
<1>6. CASE ScanFails
  BY <1>6 DEF ScanFails, ScanTime
<1> QED
  BY <1>1, <1>2, <1>3, <1>4, <1>5, <1>6 DEF Handlers

LEMMA BusMainStep ==
  ASSUME BusExclusive, MainStep
  PROVE  BusExclusive'
<1> USE DEF BusExclusive, Goto
<1>1. CASE LoopTop
  BY <1>1 DEF LoopTop
<1>2. CASE RetryTest
  BY <1>2 DEF RetryTest
<1>3. CASE Look
  BY <1>3 DEF Look
<1>4. CASE Arm \/ Expire \/ BeepTest \/ ResetPin
  BY <1>4 DEF Arm, Expire, BeepTest, ResetPin
<1>5. CASE BeepOn \/ BeepCounter \/ BeepEnable \/ BeepTimes
  BY <1>5 DEF BeepOn, BeepCounter, BeepEnable, BeepTimes, BeepStore
<1>6. CASE \E ok \in BOOLEAN : Configure(ok) \/ Restart(ok)
  BY <1>6 DEF Configure, Restart
<1> QED
  BY <1>1, <1>2, <1>3, <1>4, <1>5, <1>6 DEF MainStep

(* The scan and the main loop never use the sensor's bus at the same time,  *)
(* with nothing but CY8CMBR3xxx_isOK between them (main.c:516-530,          *)
(* 584-597).                                                                *)
THEOREM PanelBusExclusive == Spec => []BusExclusive
<1>1. Init => BusExclusive
  BY DEF Init, BusExclusive
<1>2. BusExclusive /\ [Next]_vars => BusExclusive'
  <2>1. ASSUME BusExclusive, Next PROVE BusExclusive'
    BY <2>1, BusHandlers, BusMainStep DEF Next
  <2>2. ASSUME BusExclusive, UNCHANGED vars PROVE BusExclusive'
    BY <2>2 DEF BusExclusive, vars, mainVars
  <2> QED
    BY <2>1, <2>2
<1> QED
  BY <1>1, <1>2, PTL DEF Spec

-----------------------------------------------------------------------------
(* The filters.  A button's counter of equal samples is the length of the  *)
(* run of them until the run is as long as the filter; from then on its    *)
(* bit is theirs.  Its relay may toggle again as soon as its bit is 0.     *)

Record ==
  [old : {0, 1}, new : {0, 1}, high : Nat, low : Nat,
   highs : 0..(CountMax - 1)]

Follows(f, l, cnt) ==
  /\ f.old = f.new
  /\ f.high < cnt /\ f.low < cnt
  /\ l.run \in 1..cnt
  /\ l.bit = 1 => /\ f.low = 0
                  /\ l.run < cnt => f.high = l.run
                  /\ l.run = cnt => f.old = 1
  /\ l.bit = 0 => /\ f.high = 0
                  /\ l.run < cnt => f.low = l.run
                  /\ l.run = cnt => f.old = 0

FilterInv ==
  /\ filter \in [Buttons -> Record]
  /\ level \in [Buttons -> [bit : {0, 1}, run : Nat]]
  /\ armed \subseteq Buttons
  /\ \A b \in Buttons : Follows(filter[b], level[b], FilterCnt[b])
  /\ \A b \in Buttons : b \in armed <=> filter[b].old = 0

\* A run of equal samples, one sample later.
Longer(l, v, cnt) ==
  IF l.bit # v THEN [bit |-> v, run |-> 1]
  ELSE [l EXCEPT !.run = IF @ < cnt THEN @ + 1 ELSE @]

(* The filter keeps up with its samples: its bit rises only with the last   *)
(* of cnt of them that are 1, and falls only with the last of cnt that are  *)
(* 0.                                                                       *)
LEMMA StepFollows ==
  ASSUME NEW f \in Record, NEW l \in [bit : {0, 1}, run : Nat],
         NEW cnt \in Nat \ {0}, NEW v \in {0, 1},
         Follows(f, l, cnt)
  PROVE  LET g == FilterStep(f, v, cnt)
             k == Longer(l, v, cnt)
         IN  /\ g \in Record
             /\ k \in [bit : {0, 1}, run : Nat]
             /\ Follows(g, k, cnt)
             /\ g.old = 1 /\ f.old = 0 => k = [bit |-> 1, run |-> cnt]
             /\ g.old = 0 /\ f.old = 1 => k.bit = 0 /\ k.run = cnt
             /\ k.bit = 0 /\ k.run = cnt => g.old = 0
<1> DEFINE g == FilterStep(f, v, cnt)
           k == Longer(l, v, cnt)
<1>1. CountMax \in Nat \ {0}
  BY TouchPanelAssumption
<1>2. (f.highs + 1) % CountMax \in 0..(CountMax - 1)
  BY <1>1 DEF Record
<1>3. /\ k \in [bit : {0, 1}, run : Nat]
      /\ k.bit = v
      /\ k.run = IF l.bit # v THEN 1 ELSE IF l.run < cnt THEN l.run + 1 ELSE l.run
  BY DEF Longer
<1>4. /\ {f.high, f.low, l.run} \subseteq Nat
      /\ {f.old, f.new, l.bit} \subseteq {0, 1}
      /\ f.old = f.new
      /\ f.high < cnt /\ f.low < cnt /\ l.run \in 1..cnt
  BY DEF Follows, Record
<1>5. CASE v = 1
  <2>1. /\ g.old = (IF f.high + 1 >= cnt THEN 1 ELSE f.new)
        /\ g.new = g.old
        /\ g.high = (IF f.high + 1 >= cnt THEN 0 ELSE f.high + 1)
        /\ g.low = 0
    BY <1>4, <1>5 DEF FilterStep
  <2>2. g \in Record
    BY <1>2, <1>4, <1>5 DEF FilterStep, Record
  <2>3. l.bit = 0 => f.high = 0 /\ (l.run = cnt => f.old = 0)
    BY DEF Follows
  <2>4. l.bit = 1 => (l.run < cnt => f.high = l.run) /\ (l.run = cnt => f.old = 1)
    BY DEF Follows
  <2> HIDE DEF g, k
  <2>5. Follows(g, k, cnt)
    BY <1>3, <1>4, <1>5, <2>1, <2>3, <2>4 DEF Follows
  <2>6. g.old = 1 /\ f.old = 0 => k.run = cnt
    BY <1>3, <1>4, <1>5, <2>1, <2>3, <2>4
  <2>7. k = [bit |-> k.bit, run |-> k.run]
    BY <1>3
  <2>8. ~(g.old = 0 /\ f.old = 1)
    BY <1>4, <2>1
  <2> QED
    BY <1>3, <1>5, <2>2, <2>5, <2>6, <2>7, <2>8 DEF g, k
<1>6. CASE v = 0
  <2>1. /\ g.old = (IF f.low + 1 >= cnt THEN 0 ELSE f.new)
        /\ g.new = g.old
        /\ g.high = 0
        /\ g.low = (IF f.low + 1 >= cnt THEN 0 ELSE f.low + 1)
    BY <1>4, <1>6 DEF FilterStep
  <2>2. g \in Record
    BY <1>2, <1>4, <1>6 DEF FilterStep, Record
  <2>3. l.bit = 0 => (l.run < cnt => f.low = l.run) /\ (l.run = cnt => f.old = 0)
    BY DEF Follows
  <2>4. l.bit = 1 => f.low = 0 /\ (l.run = cnt => f.old = 1)
    BY DEF Follows
  <2> HIDE DEF g, k
  <2>5. Follows(g, k, cnt)
    BY <1>3, <1>4, <1>6, <2>1, <2>3, <2>4 DEF Follows
  <2>6. g.old = 0 /\ f.old = 1 => k.run = cnt
    BY <1>3, <1>4, <1>6, <2>1, <2>3, <2>4
  <2>7. ~(g.old = 1 /\ f.old = 0)
    BY <1>4, <2>1
  <2>8. k.bit = 0 /\ k.run = cnt => g.old = 0
    BY <2>5 DEF Follows
  <2> QED
    BY <1>3, <1>6, <2>2, <2>5, <2>6, <2>7, <2>8 DEF g, k
<1> QED
  BY <1>5, <1>6

LEMMA FilterCntType == \A b \in Buttons : FilterCnt[b] \in Nat \ {0}
BY TouchPanelAssumption

\* A filter at its start.
LEMMA FilterStarts ==
  /\ FilterInit \in Record
  /\ FilterInit.old = 0
  /\ \A b \in Buttons :
       Follows(FilterInit, [bit |-> 0, run |-> FilterCnt[b]], FilterCnt[b])
BY FilterCntType, TouchPanelAssumption DEF FilterInit, Record, Follows

(* What one scan does to one button.                                        *)
LEMMA ScanButton ==
  ASSUME FilterInv, ReadSensor, NEW b \in Buttons
  PROVE  /\ filter'[b] \in Record
         /\ level'[b] \in [bit : {0, 1}, run : Nat]
         /\ Follows(filter'[b], level'[b], FilterCnt[b])
         /\ filter'[b].old = 1 /\ filter[b].old = 0
              => level'[b] = [bit |-> 1, run |-> FilterCnt[b]]
         /\ b \in armed' <=> filter'[b].old = 0
<1> DEFINE cnt == FilterCnt[b]
           v == Sample(b)
<1>1. /\ filter'[b] = FilterStep(filter[b], v, cnt)
      /\ level'[b] = Longer(level[b], v, cnt)
  BY DEF ReadSensor, Longer
<1>2. /\ cnt \in Nat \ {0}
      /\ v \in {0, 1}
      /\ filter[b] \in Record
      /\ level[b] \in [bit : {0, 1}, run : Nat]
      /\ Follows(filter[b], level[b], cnt)
      /\ b \in armed <=> filter[b].old = 0
  BY FilterCntType DEF FilterInv, Sample
<1>3. b \in armed' <=> /\ ~(filter'[b].old = 1 /\ filter[b].old = 0)
                       /\ b \in armed \/ (level'[b].bit = 0 /\ level'[b].run = cnt)
  BY DEF ReadSensor
<1> HIDE DEF cnt, v
<1>4. /\ filter'[b] \in Record
      /\ level'[b] \in [bit : {0, 1}, run : Nat]
      /\ Follows(filter'[b], level'[b], cnt)
      /\ filter'[b].old = 1 /\ filter[b].old = 0
           => level'[b] = [bit |-> 1, run |-> cnt]
      /\ filter'[b].old = 0 /\ filter[b].old = 1
           => level'[b].bit = 0 /\ level'[b].run = cnt
      /\ level'[b].bit = 0 /\ level'[b].run = cnt => filter'[b].old = 0
  BY <1>1, <1>2, StepFollows
<1>5. filter[b].old \in {0, 1} /\ filter'[b].old \in {0, 1}
  BY <1>2, <1>4 DEF Record
<1>6. b \in armed' <=> filter'[b].old = 0
  BY <1>2, <1>3, <1>4, <1>5
<1> QED
  BY <1>4, <1>6 DEF cnt

LEMMA FilterScan ==
  ASSUME FilterInv, ReadSensor
  PROVE  FilterInv'
<1>1. /\ DOMAIN filter' = Buttons /\ filter' = [b \in Buttons |-> filter'[b]]
      /\ DOMAIN level' = Buttons /\ level' = [b \in Buttons |-> level'[b]]
      /\ armed' \subseteq Buttons
  BY DEF ReadSensor
<1>2. /\ filter' \in [Buttons -> Record]
      /\ level' \in [Buttons -> [bit : {0, 1}, run : Nat]]
  BY <1>1, ScanButton
<1> QED
  BY <1>1, <1>2, ScanButton DEF FilterInv

LEMMA FilterClick ==
  ASSUME FilterInv, NEW b \in Buttons, ClickTimer(b)
  PROVE  FilterInv'
<1>1. /\ filter' = [filter EXCEPT ![b] = [@ EXCEPT !.highs = 0]]
      /\ level' = level /\ armed' = armed
  BY DEF ClickTimer, history
<1>2. \A a \in Buttons : /\ filter'[a] \in Record
                         /\ filter'[a].old = filter[a].old
                         /\ filter'[a].new = filter[a].new
                         /\ filter'[a].high = filter[a].high
                         /\ filter'[a].low = filter[a].low
  <2>1. 0 \in 0..(CountMax - 1)
    BY TouchPanelAssumption
  <2> QED
    BY <1>1, <2>1 DEF FilterInv, Record
<1>3. filter' \in [Buttons -> Record]
  BY <1>1, <1>2 DEF FilterInv
<1>4. \A a \in Buttons : Follows(filter'[a], level'[a], FilterCnt[a])
  BY <1>1, <1>2 DEF FilterInv, Follows
<1> QED
  BY <1>1, <1>2, <1>3, <1>4 DEF FilterInv

LEMMA FilterHandlers ==
  ASSUME FilterInv, Handlers
  PROVE  FilterInv'
<1>1. CASE \E b \in Buttons : ClickTimer(b)
  BY <1>1, FilterClick
<1>2. CASE ScanReads
  BY <1>2, FilterScan DEF ScanReads
<1>3. CASE /\ ~ScanReads
           /\ ~(\E b \in Buttons : ClickTimer(b))
  <2>1. UNCHANGED <<filter, level, armed>>
    BY <1>3 DEF Handlers, Touch, Command, BootRequest, ConfigRequest,
       ScanFails, history
  <2> QED
    BY <2>1 DEF FilterInv
<1> QED
  BY <1>1, <1>2, <1>3

LEMMA FilterMainStep ==
  ASSUME FilterInv, MainStep
  PROVE  FilterInv'
<1>1. CASE \E ok \in BOOLEAN : Restart(ok)
  <2>1. /\ filter' = [b \in Buttons |-> FilterInit]
        /\ level' = [b \in Buttons |-> [bit |-> 0, run |-> FilterCnt[b]]]
        /\ armed' = Buttons
    BY <1>1 DEF Restart
  <2> QED
    BY <2>1, FilterStarts, FilterCntType DEF FilterInv
<1>2. CASE ~(\E ok \in BOOLEAN : Restart(ok))
  <2>1. UNCHANGED <<filter, level, armed>>
    BY <1>2 DEF MainStep, LoopTop, RetryTest, Look, Arm, Expire, BeepTest,
       BeepOn, BeepCounter, BeepEnable, BeepTimes, BeepStore, ResetPin, Configure,
       panel, history
  <2> QED
    BY <2>1 DEF FilterInv
<1> QED
  BY <1>1, <1>2

LEMMA FilterInvariant == Spec => []FilterInv
<1>1. Init => FilterInv
  BY FilterStarts, FilterCntType DEF Init, FilterInv
<1>2. FilterInv /\ [Next]_vars => FilterInv'
  <2>1. ASSUME FilterInv, Next PROVE FilterInv'
    BY <2>1, FilterHandlers, FilterMainStep DEF Next
  <2>2. ASSUME FilterInv, UNCHANGED vars PROVE FilterInv'
    BY <2>2 DEF FilterInv, vars, history
  <2> QED
    BY <2>1, <2>2
<1> QED
  BY <1>1, <1>2, PTL DEF Spec

(* No touch is passed over: a button found touched for filterCnt samples    *)
(* has toggled since its last release (io_control.c:74-114).                *)
THEOREM PanelNoTouchIgnored == Spec => []NoTouchIgnored
<1>1. FilterInv => NoTouchIgnored
  <2>1. ASSUME FilterInv, NEW b \in Buttons,
               level[b] = [bit |-> 1, run |-> FilterCnt[b]]
        PROVE  b \notin armed
    <3>1. Follows(filter[b], level[b], FilterCnt[b])
      BY <2>1 DEF FilterInv
    <3>2. filter[b].old = 1
      BY <2>1, <3>1 DEF Follows
    <3> QED
      BY <2>1, <3>2 DEF FilterInv
  <2> QED
    BY <2>1 DEF NoTouchIgnored
<1> QED
  BY <1>1, FilterInvariant, PTL

(* One touch, one toggle: a scan toggles a button's relay only with the     *)
(* last of filterCnt samples that find it touched, and only if it has been  *)
(* found released as long since it last did (io_control.c:74-114).          *)
THEOREM PanelOneTogglePerTouch == Spec => OneTogglePerTouch
<1> DEFINE Once ==
      \A b \in Buttons :
        relay'[b] # relay[b] =>
          /\ b \in armed
          /\ level'[b] = [bit |-> 1, run |-> FilterCnt[b]]
<1>1. ASSUME FilterInv, ScanReads PROVE Once
  <2>1. ReadSensor
    BY <1>1 DEF ScanReads
  <2>2. ASSUME NEW b \in Buttons, relay'[b] # relay[b]
        PROVE  filter'[b].old = 1 /\ filter[b].old = 0
    <3>1. b \in Relays
      BY TouchPanelAssumption DEF Buttons, Relays
    <3>2. relay'[b] = IF filter'[b].old = 1 /\ filter[b].old = 0
                      THEN 1 - relay[b] ELSE relay[b]
      BY <2>1, <3>1 DEF ReadSensor
    <3> QED
      BY <2>2, <3>2
  <2> QED
    BY <1>1, <2>1, <2>2, ScanButton DEF FilterInv
<1>2. ASSUME ScanFails PROVE Once
  BY <1>2 DEF ScanFails
<1>3. FilterInv => [(ScanReads \/ ScanFails) => Once]_vars
  BY <1>1, <1>2
<1> QED
  BY <1>3, FilterInvariant, PTL DEF OneTogglePerTouch

-----------------------------------------------------------------------------
(* The other variables keep their ranges: a filter toggles a relay between  *)
(* its two values, and the buzzer's counter stays within a beep and its     *)
(* pause, whatever stores of the main loop the scans interrupt.             *)

OnTimes == {OnTime, ConfirmTime}

LongestOn == IF OnTime >= ConfirmTime THEN OnTime ELSE ConfirmTime

BuzzerType ==
  [on : OnTimes, enable : BOOLEAN, times : Nat,
   counter : 0..(LongestOn + OffTime), status : {0, 1}]

RestTypeOK ==
  /\ finger \subseteq Buttons
  /\ relay \in [Relays -> {0, 1}]
  /\ buzzer \in BuzzerType
  /\ clicking \subseteq ClickButtons
  /\ isOK \in BOOLEAN /\ boot \in BOOLEAN /\ blind \in BOOLEAN
  /\ holdLeft \in 0..Hold
  /\ retryLeft \in 0..Retry
  /\ pc \in Labels
  /\ idx \in Buttons
  /\ stall \in 0..MaxStall
  /\ calm \in Nat
  /\ held \in Nat

LEMMA Times ==
  /\ OnTime \in Nat \ {0} /\ OffTime \in Nat \ {0} /\ LongBeeps \in Nat \ {0}
  /\ Hold \in Nat \ {0} /\ Retry \in Nat \ {0} /\ MaxStall \in Nat \ {0}
  /\ MaxStall < Hold
  /\ LongestOn \in OnTimes /\ LongestOn \in Nat /\ OnTimes \subseteq Nat
  /\ \A on \in OnTimes : on <= LongestOn
  /\ OnTime \in OnTimes /\ ConfirmTime \in OnTimes
  /\ 0 \in 0..(LongestOn + OffTime)
BY TouchPanelAssumption DEF LongestOn, OnTimes

LEMMA BuzzerStores ==
  ASSUME NEW b \in BuzzerType
  PROVE  /\ \A n \in Nat, on \in OnTimes : BeepFor(b, on, n) \in BuzzerType
         /\ \A n \in Nat : Beep(b, n) \in BuzzerType
         /\ [b EXCEPT !.on = OnTime] \in BuzzerType
         /\ [b EXCEPT !.counter = 0] \in BuzzerType
         /\ [b EXCEPT !.enable = TRUE] \in BuzzerType
         /\ [b EXCEPT !.times = LongBeeps] \in BuzzerType
BY Times DEF BuzzerType, Beep, BeepFor

LEMMA BuzzerScan ==
  ASSUME NEW b \in BuzzerType
  PROVE  BuzzerStep(b) \in BuzzerType
<1> DEFINE c == IF b.counter > 1 THEN b.counter - 1 ELSE 0
           n == IF c > 0 THEN [b EXCEPT !.counter = c]
                ELSE IF b.times > 0
                THEN [b EXCEPT !.counter = b.on + OffTime, !.times = @ - 1,
                               !.status = 1]
                ELSE [b EXCEPT !.counter = 0, !.enable = FALSE, !.status = 0]
<1>1. b.counter \in 0..(LongestOn + OffTime) /\ b.times \in Nat
      /\ b.on \in OnTimes
  BY DEF BuzzerType
<1>2. c \in 0..(LongestOn + OffTime)
  BY <1>1, Times
<1>3. b.on + OffTime \in 0..(LongestOn + OffTime)
  <2>1. b.on \in Nat /\ LongestOn \in Nat /\ OffTime \in Nat /\ b.on <= LongestOn
    BY <1>1, Times
  <2> QED
    BY <2>1
<1>4. n \in BuzzerType
  <2> HIDE DEF c
  <2>1. CASE c > 0
    BY <1>2, <2>1 DEF BuzzerType
  <2>2. CASE ~(c > 0) /\ b.times > 0
    <3>1. b.times - 1 \in Nat
      BY <1>1, <2>2
    <3> QED
      BY <1>3, <2>2, <3>1 DEF BuzzerType
  <2>3. CASE ~(c > 0) /\ ~(b.times > 0)
    BY <2>3, Times DEF BuzzerType
  <2> QED
    BY <2>1, <2>2, <2>3
<1>5. BuzzerStep(b) = IF ~b.enable THEN [b EXCEPT !.status = 0]
                      ELSE IF n.counter <= OffTime THEN [n EXCEPT !.status = 0]
                      ELSE n
  BY DEF BuzzerStep
<1> HIDE DEF n
<1> QED
  BY <1>4, <1>5 DEF BuzzerType

LEMMA LessType ==
  ASSUME NEW m \in Nat, NEW n \in 0..m
  PROVE  Less(n) \in 0..m /\ n <= Less(n) + 1
BY DEF Less

LEMMA RestScanTime ==
  ASSUME RestTypeOK, ScanTime
  PROVE  /\ UNCHANGED <<finger, boot, pc, idx>>
         /\ holdLeft' \in 0..Hold /\ Less(retryLeft) \in 0..Retry
         /\ stall' \in 0..MaxStall
<1>1. holdLeft' \in 0..Hold /\ Less(retryLeft) \in 0..Retry
  BY Times, LessType DEF ScanTime, RestTypeOK
<1>2. stall' \in 0..MaxStall
  BY Times DEF ScanTime, RestTypeOK
<1> QED
  BY <1>1, <1>2 DEF ScanTime, mainVars

LEMMA CalmType ==
  ASSUME calm \in Nat
  PROVE  (IF calm > Grace THEN calm ELSE calm + 1) \in Nat
OBVIOUS

LEMMA HeldType ==
  ASSUME held \in Nat
  PROVE  OneMore(held) \in Nat
BY DEF OneMore

LEMMA RestScanReads ==
  ASSUME RestTypeOK, ScanReads
  PROVE  RestTypeOK'
<1> DEFINE pressed == {b \in Buttons : filter'[b].old = 1 /\ filter[b].old = 0}
<1>1. ReadSensor /\ ScanTime /\ isOK' = isOK /\ retryLeft' = Less(retryLeft)
  BY DEF ScanReads
<1>2. /\ relay' = [r \in Relays |->
                     IF r \in {b \in Buttons : filter'[b].old = 1 /\ filter[b].old = 0}
                     THEN 1 - relay[r] ELSE relay[r]]
      /\ clicking' = clicking \cup (pressed \cap ClickButtons)
      /\ buzzer' = BuzzerStep(IF pressed = {} THEN buzzer ELSE Beep(buzzer, 1))
      /\ calm' = IF finger # {} THEN 0 ELSE IF calm > Grace THEN calm ELSE calm + 1
      /\ blind' = (blind /\ finger = {})
      /\ held' = IF Released(calm', blind') THEN 0 ELSE OneMore(held)
  <2>1. filter' = [b \in Buttons |-> FilterStep(filter[b], Sample(b), FilterCnt[b])]
    BY <1>1 DEF ReadSensor
  <2> QED
    BY <1>1, <2>1 DEF ReadSensor
<1> HIDE DEF pressed
<1>3. relay' \in [Relays -> {0, 1}]
  BY <1>2 DEF RestTypeOK
<1>4. clicking' \subseteq ClickButtons
  BY <1>2 DEF RestTypeOK
<1>5. buzzer' \in BuzzerType
  BY <1>2, BuzzerStores, BuzzerScan DEF RestTypeOK
<1>6. calm' \in Nat
  <2>1. calm \in Nat /\ 0 \in Nat
    BY DEF RestTypeOK
  <2> QED
    BY <1>2, <2>1, CalmType
<1>7. blind' \in BOOLEAN
  BY <1>2, Zenon DEF RestTypeOK
<1>8. held' \in Nat
  <2>1. held \in Nat /\ 0 \in Nat
    BY DEF RestTypeOK
  <2> QED
    BY <1>2, <2>1, HeldType
<1> QED
  BY <1>1, <1>3, <1>4, <1>5, <1>6, <1>7, <1>8, RestScanTime, Zenon DEF RestTypeOK

LEMMA RestScanFails ==
  ASSUME RestTypeOK, ScanFails
  PROVE  RestTypeOK'
<1>1. /\ ScanTime /\ isOK' = FALSE /\ buzzer' = BuzzerStep(buzzer)
      /\ calm' = (IF calm > Grace THEN calm ELSE calm + 1)
      /\ blind' = TRUE /\ held' = OneMore(held) /\ UNCHANGED <<relay, clicking>>
      /\ retryLeft' = Less(retryLeft) \/ retryLeft' \in 0..Retry
  BY DEF ScanFails
<1>2. calm' \in Nat
  BY <1>1, CalmType DEF RestTypeOK
<1>3. held' \in Nat
  BY <1>1, HeldType DEF RestTypeOK
<1>4. retryLeft' \in 0..Retry
  BY <1>1, RestScanTime
<1> QED
  BY <1>1, <1>2, <1>3, <1>4, BuzzerScan, RestScanTime, Zenon DEF RestTypeOK

LEMMA RestHandlers ==
  ASSUME RestTypeOK, Handlers
  PROVE  RestTypeOK'
<1> USE DEF mainVars, timers, history, bounds
<1>1. ASSUME NEW b \in Buttons, Touch(b) PROVE RestTypeOK'
  BY <1>1 DEF Touch, RestTypeOK
<1>2. ASSUME NEW b \in Buttons, ClickTimer(b) PROVE RestTypeOK'
  <2>1. buzzer' \in BuzzerType /\ boot' \in BOOLEAN
    BY <1>2, BuzzerStores, Times DEF ClickTimer, RestTypeOK
  <2> QED
    BY <1>2, <2>1 DEF ClickTimer, RestTypeOK
<1>3. ASSUME NEW r \in Relays, NEW v \in {0, 1}, Command(r, v)
      PROVE  RestTypeOK'
  <2>1. r \in Nat
    BY TouchPanelAssumption DEF Relays
  <2>2. buzzer' \in BuzzerType
    BY <1>3, <2>1, BuzzerStores DEF Command, RestTypeOK
  <2>3. relay' \in [Relays -> {0, 1}]
    BY <1>3 DEF Command, RestTypeOK
  <2> QED
    BY <1>3, <2>2, <2>3 DEF Command, RestTypeOK
<1>4. CASE BootRequest
  <2>1. buzzer' \in BuzzerType
    BY <1>4, BuzzerStores, Times DEF BootRequest, RestTypeOK
  <2> QED
    BY <1>4, <2>1 DEF BootRequest, RestTypeOK
<1>5. CASE ConfigRequest
  <2>1. buzzer' \in BuzzerType
    BY <1>5, BuzzerStores, Times DEF ConfigRequest, RestTypeOK
  <2> QED
    BY <1>5, <2>1 DEF ConfigRequest, RestTypeOK
<1> QED
  BY <1>1, <1>2, <1>3, <1>4, <1>5, RestScanReads, RestScanFails DEF Handlers

LEMMA RestStart ==
  /\ [r \in Relays |-> 0] \in [Relays -> {0, 1}]
  /\ \A ok \in BOOLEAN : StartBuzzer(ok) \in BuzzerType
  /\ 1 \in Buttons /\ Hold \in 0..Hold /\ Retry \in 0..Retry /\ 0 \in 0..MaxStall
BY Times, TouchPanelAssumption DEF StartBuzzer, BuzzerType, Buttons

LEMMA RestMainStep ==
  ASSUME RestTypeOK, MainStep
  PROVE  RestTypeOK'
<1> USE DEF mainVars, timers, history, bounds, panel, Goto, Labels
<1>1. CASE LoopTop
  BY <1>1, RestStart DEF LoopTop, RestTypeOK
<1>2. CASE RetryTest
  BY <1>2, RestStart DEF RetryTest, RestTypeOK
<1>3. CASE Look
  <2>1. idx' \in Buttons
    BY <1>3, TouchPanelAssumption DEF Look, RestTypeOK, Buttons
  <2> QED
    BY <1>3, <2>1 DEF Look, RestTypeOK
<1>4. CASE Arm \/ Expire \/ BeepTest \/ ResetPin
  BY <1>4, RestStart DEF Arm, Expire, BeepTest, ResetPin, RestTypeOK
<1>5. CASE BeepOn \/ BeepCounter \/ BeepEnable \/ BeepTimes
  <2>1. buzzer' \in BuzzerType
    BY <1>5, BuzzerStores
       DEF BeepOn, BeepCounter, BeepEnable, BeepTimes, BeepStore, RestTypeOK
  <2> QED
    BY <1>5, <2>1 DEF BeepOn, BeepCounter, BeepEnable, BeepTimes, BeepStore, RestTypeOK
<1>6. ASSUME NEW ok \in BOOLEAN, Configure(ok) PROVE RestTypeOK'
  BY <1>6, RestStart DEF Configure, RestTypeOK
<1>7. ASSUME NEW ok \in BOOLEAN, Restart(ok) PROVE RestTypeOK'
  <2>1. /\ relay' = [r \in Relays |-> 0] /\ isOK' = ok
        /\ buzzer' = StartBuzzer(ok) /\ clicking' = {} /\ boot' = FALSE
        /\ holdLeft' = Hold /\ retryLeft' = Retry /\ pc' = "boot" /\ idx' = 1
        /\ calm' = 0 /\ blind' = ~ok /\ held' = 0 /\ stall' = 0
        /\ finger' = finger
    BY <1>7 DEF Restart
  <2>2. blind' \in BOOLEAN /\ calm' \in Nat /\ held' \in Nat /\ pc' \in Labels
    BY <2>1
  <2> QED
    BY <2>1, <2>2, RestStart, Zenon DEF RestTypeOK
<1> QED
  BY <1>1, <1>2, <1>3, <1>4, <1>5, <1>6, <1>7 DEF MainStep

LEMMA RestInvariant == Spec => []RestTypeOK
<1>1. Init => RestTypeOK
  <2> SUFFICES ASSUME Init PROVE RestTypeOK
    OBVIOUS
  <2>1. blind \in BOOLEAN /\ calm \in Nat /\ held \in Nat /\ pc \in Labels
    BY DEF Init, Labels
  <2>2. buzzer = StartBuzzer(isOK) /\ isOK \in BOOLEAN
    BY DEF Init
  <2> QED
    BY <2>1, <2>2, RestStart DEF Init, RestTypeOK
<1>2. RestTypeOK /\ [Next]_vars => RestTypeOK'
  <2>1. ASSUME RestTypeOK, Next PROVE RestTypeOK'
    BY <2>1, RestHandlers, RestMainStep DEF Next
  <2>2. ASSUME RestTypeOK, UNCHANGED vars PROVE RestTypeOK'
    BY <2>2 DEF RestTypeOK, vars, mainVars, timers, history, bounds
  <2> QED
    BY <2>1, <2>2
<1> QED
  BY <1>1, <1>2, PTL DEF Spec

(* Every variable keeps its range, in every interleaving of scans, commands *)
(* and the main loop (io_control.c, main.c:500-560).                        *)
THEOREM PanelTypeCorrect == Spec => []TypeOK
<1>1. FilterInv /\ RestTypeOK => TypeOK
  <2> SUFFICES ASSUME FilterInv, RestTypeOK PROVE TypeOK
    OBVIOUS
  <2>1. ASSUME NEW b \in Buttons
        PROVE  /\ filter[b].old = filter[b].new
               /\ filter[b].old \in {0, 1}
               /\ filter[b].high \in 0..(FilterCnt[b] - 1)
               /\ filter[b].low \in 0..(FilterCnt[b] - 1)
               /\ filter[b].highs \in 0..(CountMax - 1)
    <3>1. filter[b] \in Record /\ Follows(filter[b], level[b], FilterCnt[b])
      BY DEF FilterInv
    <3> QED
      BY <3>1, FilterCntType DEF Record, Follows
  <2>2. {isOK, boot, blind} \subseteq BOOLEAN
    BY Zenon DEF RestTypeOK
  <2>3. /\ buzzer \in [on : OnTimes, enable : BOOLEAN, times : Nat,
                        counter : Nat, status : {0, 1}]
        /\ buzzer.counter <= LongestOn + OffTime
    <3>1. buzzer \in BuzzerType /\ LongestOn + OffTime \in Nat
      BY Times DEF RestTypeOK
    <3> QED
      BY <3>1 DEF BuzzerType
  <2> QED
    BY <2>1, <2>2, <2>3, Times DEF TypeOK, RestTypeOK, OnTimes
<1> QED
  BY <1>1, FilterInvariant, RestInvariant, PTL

-----------------------------------------------------------------------------
(* The PIN's ten seconds.  A scan that reads the sensor makes the run of    *)
(* released samples as long as the calm, so once the calm is as long as the *)
(* slowest filter no button counts as touched; the main loop then arms the  *)
(* ten seconds in its next turn, and a turn is too short for them to pass.  *)

(* A nonempty set of numbers has a least element.                           *)
LEMMA Least ==
  ASSUME NEW T \in SUBSET Nat, T # {}
  PROVE  \E n \in T : \A m \in T : n <= m
<1>1. PICK n \in T : \A m \in T : <<m, n>> \notin OpToRel(<, Nat)
  BY WFMin, NatLessThanWellFounded, Zenon
<1>2. \A m \in T : ~(m < n)
  BY <1>1, Zenon DEF OpToRel
<1> QED
  BY <1>2

(* Finitely many numbers have a greatest among them: no k is the least with *)
(* none among the first k.                                                  *)
LEMMA Greatest ==
  ASSUME NEW n \in Nat \ {0}, NEW f \in [1..n -> Nat]
  PROVE  \E a \in 1..n : \A b \in 1..n : f[b] <= f[a]
<1> DEFINE Has(k) == \E a \in 1..k : \A b \in 1..k : f[b] <= f[a]
           T == {k \in 1..n : ~Has(k)}
<1>1. ASSUME T # {} PROVE FALSE
  <2>1. PICK k \in T : \A m \in T : k <= m
    <3>1. T \in SUBSET Nat
      OBVIOUS
    <3> HIDE DEF T
    <3> QED
      BY <1>1, <3>1, Least
  <2>2. k \in 1..n /\ ~Has(k)
    OBVIOUS
  <2>3. CASE k = 1
    <3>1. 1..k = {1} /\ f[1] <= f[1]
      BY <2>3
    <3> QED
      BY <2>2, <3>1
  <2>4. CASE k # 1
    <3>1. k - 1 \in 1..n /\ ~(k <= k - 1)
      BY <2>2, <2>4
    <3>2. Has(k - 1)
      BY <2>1, <3>1
    <3> HIDE DEF T
    <3>3. PICK a \in 1..(k - 1) : \A b \in 1..(k - 1) : f[b] <= f[a]
      BY <3>2
    <3>4. \A b \in 1..k : b = k \/ b \in 1..(k - 1)
      BY <2>2
    <3>5. f[a] \in Nat /\ f[k] \in Nat /\ (\A b \in 1..(k - 1) : f[b] \in Nat)
          /\ a \in 1..k /\ k \in 1..k
      BY <2>2
    <3>6. CASE f[k] <= f[a]
      <4>1. \A b \in 1..k : f[b] <= f[a]
        BY <3>3, <3>4, <3>6
      <4> QED
        BY <2>2, <3>5, <4>1
    <3>7. CASE ~(f[k] <= f[a])
      <4>1. \A b \in 1..k : f[b] <= f[k]
        BY <3>3, <3>4, <3>5, <3>7
      <4> QED
        BY <2>2, <3>5, <4>1
    <3> QED
      BY <3>6, <3>7
  <2> QED
    BY <2>3, <2>4
<1>2. n \in 1..n
  OBVIOUS
<1> QED
  BY <1>1, <1>2

\* The slowest filter.
Slow == Grace - 2 * MaxStall

(* Grace is the slowest filter and two turns of the main loop.              *)
LEMMA GraceType ==
  /\ Grace \in Nat
  /\ Slow \in Nat \ {0}
  /\ Grace = Slow + 2 * MaxStall
  /\ \A b \in Buttons : FilterCnt[b] <= Slow
<1>1. PICK a \in Buttons : \A b \in Buttons : FilterCnt[b] <= FilterCnt[a]
  <2>1. NButtons \in Nat \ {0} /\ FilterCnt \in [1..NButtons -> Nat]
    BY TouchPanelAssumption DEF Buttons
  <2> QED
    BY <2>1, Greatest DEF Buttons
<1>2. \A b \in Buttons : FilterCnt[b] + 2 * MaxStall \in Nat
  BY FilterCntType, Times
<1>3. /\ FilterCnt[a] + 2 * MaxStall
           \in {FilterCnt[b] + 2 * MaxStall : b \in Buttons}
      /\ \A b \in Buttons :
           FilterCnt[b] + 2 * MaxStall <= FilterCnt[a] + 2 * MaxStall
  BY <1>1, FilterCntType, Times
<1>4. /\ Grace \in {FilterCnt[b] + 2 * MaxStall : b \in Buttons}
      /\ \A b \in Buttons : FilterCnt[b] + 2 * MaxStall <= Grace
  BY <1>3 DEF Grace
<1>5. \A b \in Buttons : FilterCnt[b] \in Nat \ {0}
  BY FilterCntType
<1>6. PICK b \in Buttons : Grace = FilterCnt[b] + 2 * MaxStall
  BY <1>4
<1>7. MaxStall \in Nat /\ Slow = FilterCnt[b]
  BY <1>5, <1>6, Times DEF Slow
<1>8. \A d \in Buttons : FilterCnt[d] <= Slow
  BY <1>4, <1>5, <1>6, <1>7
<1> QED
  BY <1>5, <1>6, <1>7, <1>8

\* How long the calm can be while the main loop acts on a touch it has seen.
Late == blind \/ calm <= Slow + stall

PinSteps ==
  {"beepTest", "beepOn", "beepCounter", "beepEnable", "beepTimes", "resetPin"}

CalmInv ==
  /\ ~isOK => blind
  /\ ~blind /\ calm > 0 =>
       \A b \in Buttons : /\ level[b].bit = 0
                          /\ level[b].run >= calm \/ level[b].run = FilterCnt[b]
  /\ pc = "expire" => Late \/ holdLeft >= Hold - stall
  /\ pc \in PinSteps => Late

\* How recently the main loop has armed the ten seconds: in this turn, when
\* it has found no button touched from the turn's start; in this turn or the
\* one before, when it has not since that one's start.
HoldInv ==
  /\ pc = "boot" => Late \/ holdLeft >= Hold - stall
  /\ Late \/ calm <= Slow + MaxStall + stall \/ holdLeft >= Hold - MaxStall - stall
  /\ holdLeft + held >= HoldSeen
  /\ pc \in PinSteps => holdLeft = 0

PanelInv == FilterInv /\ RestTypeOK /\ BusExclusive /\ CalmInv

LEMMA SlowConstant == Slow' = Slow
BY DEF Slow, Grace

(* A button that still counts as touched: the calm is shorter than its      *)
(* filter.                                                                  *)
LEMMA TouchedIsLate ==
  ASSUME PanelInv, NEW b \in Buttons, filter[b].old = 1
  PROVE  Late
<1>1. /\ Follows(filter[b], level[b], FilterCnt[b])
      /\ level[b] \in [bit : {0, 1}, run : Nat]
      /\ FilterCnt[b] \in Nat \ {0} /\ calm \in Nat /\ stall \in Nat
  BY FilterCntType, Times DEF PanelInv, FilterInv, RestTypeOK
<1>2. level[b].bit = 0 => level[b].run < FilterCnt[b]
  BY <1>1 DEF Follows
<1>3. blind \/ calm <= FilterCnt[b]
  BY <1>1, <1>2 DEF PanelInv, CalmInv
<1>4. FilterCnt[b] <= Slow /\ Slow \in Nat
  BY GraceType
<1> QED
  BY <1>1, <1>3, <1>4 DEF Late

(* A scan adds one to the calm and to the turn, unless the turn has been    *)
(* long enough, which only a sensor being configured allows.                *)
LEMMA LateScan ==
  ASSUME PanelInv, ScanTime, calm' \in {0, calm, calm + 1},
         Late, pc # "configure", blind' \/ blind' = blind \/ calm' = 0
  PROVE  Late'
<1>1. /\ calm \in Nat /\ stall \in 0..MaxStall /\ MaxStall \in Nat
      /\ stall' = stall + 1
  BY Times DEF PanelInv, RestTypeOK, ScanTime
<1>2. CASE blind'
  BY <1>2 DEF Late
<1>3. CASE ~blind' /\ calm' = 0
  <2>1. calm' <= Slow + stall'
    BY <1>1, <1>3, GraceType
  <2> QED
    BY <2>1, SlowConstant DEF Late
<1>4. CASE ~blind' /\ calm' # 0
  <2>1. calm <= Slow + stall
    BY <1>4 DEF Late
  <2>2. calm' <= Slow + stall'
    BY <1>1, <1>4, <2>1, GraceType
  <2> QED
    BY <2>2, SlowConstant DEF Late
<1> QED
  BY <1>2, <1>3, <1>4

LEMMA CalmScanReads ==
  ASSUME PanelInv, ScanReads
  PROVE  CalmInv'
<1>1. /\ ReadSensor /\ ScanTime /\ isOK' = isOK /\ isOK = TRUE /\ pc' = pc
      /\ holdLeft' = Less(holdLeft)
  BY DEF ScanReads, ScanTime, mainVars
<1>2. /\ calm' = IF finger # {} THEN 0 ELSE IF calm > Grace THEN calm ELSE calm + 1
      /\ blind' = (blind /\ finger = {})
  BY <1>1 DEF ReadSensor
<1>3. calm \in Nat /\ calm' \in {0, calm, calm + 1} /\ blind \in BOOLEAN
  BY <1>2 DEF PanelInv, RestTypeOK
<1>4. blind' \/ blind' = blind \/ calm' = 0
  BY <1>2, <1>3, Zenon
<1>5. ASSUME ~blind', calm' > 0, NEW b \in Buttons
      PROVE  /\ level'[b].bit = 0
             /\ level'[b].run >= calm' \/ level'[b].run = FilterCnt[b]
  <2>1. finger = {}
    BY <1>2, <1>5
  <2>2. ~blind
    BY <1>2, <1>5, <2>1, Zenon
  <2>3. level'[b] = Longer(level[b], 0, FilterCnt[b])
    BY <1>1, <2>1 DEF ReadSensor, Longer, Sample
  <2>4. /\ level[b] \in [bit : {0, 1}, run : Nat]
        /\ FilterCnt[b] \in Nat \ {0}
    BY FilterCntType DEF PanelInv, FilterInv
  <2>5. /\ level'[b].bit = 0
        /\ level'[b].run = IF level[b].bit # 0 THEN 1
                           ELSE IF level[b].run < FilterCnt[b]
                           THEN level[b].run + 1 ELSE level[b].run
    BY <2>3, <2>4 DEF Longer
  <2>6. level[b].run \in 1..FilterCnt[b]
    BY DEF PanelInv, FilterInv, Follows
  <2>7. calm > 0 => /\ level[b].bit = 0
                    /\ level[b].run >= calm \/ level[b].run = FilterCnt[b]
    BY <2>2 DEF PanelInv, CalmInv
  <2>8. CASE calm = 0
    BY <1>3, <1>5, <2>4, <2>5, <2>6, <2>8
  <2>9. CASE calm > 0
    BY <1>3, <1>5, <2>4, <2>5, <2>6, <2>7, <2>9
  <2> QED
    BY <1>3, <2>8, <2>9
<1>6. ASSUME Late, pc \in PinSteps \cup {"expire"} PROVE Late'
  <2>1. pc # "configure"
    BY <1>6 DEF PinSteps
  <2> QED
    BY <1>1, <1>3, <1>4, <1>6, <2>1, LateScan
<1>7. ASSUME pc = "expire", holdLeft >= Hold - stall
      PROVE  holdLeft' >= Hold - stall'
  <2>1. stall' = stall + 1 /\ stall \in Nat /\ holdLeft \in Nat
    BY <1>1, <1>7, Times DEF ScanTime, PanelInv, RestTypeOK
  <2>2. holdLeft' + 1 >= holdLeft /\ holdLeft' \in Nat
    BY <1>1, <2>1 DEF Less
  <2>3. Hold \in Nat /\ stall' \in Nat
    BY <2>1, Times
  <2>4. \A g \in Nat : g + 1 >= holdLeft => g >= Hold - stall'
    BY <1>7, <2>1, <2>3
  <2> QED
    BY <2>2, <2>4, Zenon
<1> QED
  BY <1>1, <1>5, <1>6, <1>7 DEF PanelInv, CalmInv

LEMMA CalmScanFails ==
  ASSUME PanelInv, ScanFails
  PROVE  CalmInv'
BY DEF ScanFails, CalmInv, Late

LEMMA CalmHandlers ==
  ASSUME PanelInv, Handlers
  PROVE  CalmInv'
<1>1. CASE ScanReads
  BY <1>1, CalmScanReads
<1>2. CASE ScanFails
  BY <1>2, CalmScanFails
<1>3. CASE ~ScanReads /\ ~ScanFails
  <2>1. UNCHANGED <<isOK, blind, calm, level, pc, holdLeft, stall>>
    BY <1>3 DEF Handlers, Touch, Command, BootRequest, ConfigRequest,
       ClickTimer, history, mainVars, timers, bounds
  <2> QED
    BY <2>1 DEF PanelInv, CalmInv, Late
<1> QED
  BY <1>1, <1>2, <1>3

LEMMA CalmMainStep ==
  ASSUME PanelInv, MainStep
  PROVE  CalmInv'
<1> USE DEF Goto, PinSteps
<1>1. CASE LoopTop
  <2>1. /\ UNCHANGED <<isOK, blind, calm, level>>
        /\ pc' \in {"restart", "retry"}
    BY <1>1 DEF LoopTop, history
  <2> QED
    BY <2>1 DEF PanelInv, CalmInv
<1>2. CASE RetryTest
  <2>1. /\ UNCHANGED <<isOK, blind, calm, level>>
        /\ pc' \in {"configure", "look"}
    BY <1>2 DEF RetryTest, history
  <2> QED
    BY <2>1 DEF PanelInv, CalmInv
<1>3. CASE Look
  <2>1. /\ UNCHANGED <<isOK, blind, calm, level, stall, holdLeft>>
        /\ pc' \in {"expire", "look", "arm"}
        /\ pc' = "expire" => filter[idx].old = 1
    BY <1>3 DEF Look, history, bounds, timers
  <2>2. pc' = "expire" => Late
    BY <2>1, TouchedIsLate DEF PanelInv, RestTypeOK
  <2> QED
    BY <2>1, <2>2 DEF PanelInv, CalmInv, Late
<1>4. CASE Arm
  <2>1. /\ UNCHANGED <<isOK, blind, calm, level, stall>>
        /\ holdLeft' = Hold /\ pc' = "expire"
    BY <1>4 DEF Arm, history, bounds
  <2>2. holdLeft' >= Hold - stall'
    BY <2>1, Times DEF PanelInv, RestTypeOK
  <2> QED
    BY <2>1, <2>2 DEF PanelInv, CalmInv
<1>5. CASE Expire
  <2>1. /\ UNCHANGED <<isOK, blind, calm, level, stall, holdLeft>>
        /\ pc = "expire"
        /\ pc' = IF holdLeft > 0 THEN "boot" ELSE "beepTest"
    BY <1>5 DEF Expire, history, bounds, timers
  <2>2. pc' = "beepTest" => Late
    <3>1. /\ holdLeft \in Nat /\ stall \in 0..MaxStall
          /\ Late \/ holdLeft >= Hold - stall
      BY <2>1, Times DEF PanelInv, RestTypeOK, CalmInv
    <3> QED
      BY <2>1, <3>1, Times
  <2> QED
    BY <2>1, <2>2 DEF PanelInv, CalmInv, Late
<1>6. CASE BeepTest \/ BeepOn \/ BeepCounter \/ BeepEnable \/ BeepTimes
  <2>1. /\ UNCHANGED <<isOK, blind, calm, level, stall, holdLeft>>
        /\ pc \in PinSteps /\ pc' \in PinSteps
    BY <1>6 DEF BeepTest, BeepOn, BeepCounter, BeepEnable, BeepTimes, BeepStore,
       history, bounds, timers
  <2> QED
    BY <2>1 DEF PanelInv, CalmInv, Late
<1>7. CASE ResetPin
  <2>1. UNCHANGED <<isOK, blind, calm, level>> /\ pc' = "boot"
    BY <1>7 DEF ResetPin, history
  <2> QED
    BY <2>1 DEF PanelInv, CalmInv
<1>8. ASSUME NEW ok \in BOOLEAN, Configure(ok) PROVE CalmInv'
  <2>1. /\ UNCHANGED <<blind, calm, level>>
        /\ pc = "configure" /\ pc' = "look"
    BY <1>8 DEF Configure, history
  <2>2. blind
    BY <2>1 DEF PanelInv, BusExclusive, CalmInv
  <2> QED
    BY <2>1, <2>2 DEF CalmInv
<1>9. ASSUME NEW ok \in BOOLEAN, Restart(ok) PROVE CalmInv'
  <2>1. calm' = 0 /\ blind' = ~ok /\ isOK' = ok /\ pc' = "boot"
    BY <1>9 DEF Restart
  <2>2. ~isOK' => blind'
    BY <2>1, Zenon
  <2>3. ~(calm' > 0) /\ pc' # "expire" /\ pc' \notin PinSteps
    BY <2>1
  <2> QED
    BY <2>2, <2>3, Zenon DEF CalmInv
<1> QED
  BY <1>1, <1>2, <1>3, <1>4, <1>5, <1>6, <1>7, <1>8, <1>9 DEF MainStep

LEMMA CalmInvariant == Spec => []PanelInv
<1>1. Init => CalmInv
  <2> SUFFICES ASSUME Init PROVE CalmInv
    OBVIOUS
  <2>1. calm = 0 /\ blind = ~isOK /\ pc = "boot"
    BY DEF Init
  <2>2. ~isOK => blind
    BY <2>1, Zenon
  <2>3. ~(calm > 0) /\ pc # "expire" /\ pc \notin PinSteps
    BY <2>1 DEF PinSteps
  <2> QED
    BY <2>2, <2>3, Zenon DEF CalmInv
<1>2. PanelInv /\ [Next]_vars => CalmInv'
  <2>1. ASSUME PanelInv, Next PROVE CalmInv'
    BY <2>1, CalmHandlers, CalmMainStep DEF Next
  <2>2. ASSUME PanelInv, UNCHANGED vars PROVE CalmInv'
    BY <2>2 DEF PanelInv, CalmInv, Late, vars, mainVars, timers, history, bounds
  <2> QED
    BY <2>1, <2>2
<1>3. Spec => [](FilterInv /\ RestTypeOK /\ BusExclusive)
  BY FilterInvariant, RestInvariant, PanelBusExclusive, PTL
<1> QED
  BY <1>1, <1>2, <1>3, PTL DEF Spec, PanelInv

LEMMA HoldNumbers ==
  ASSUME RestTypeOK
  PROVE  /\ holdLeft \in Nat /\ held \in Nat /\ calm \in Nat
         /\ stall \in Nat /\ stall <= MaxStall
         /\ Hold \in Nat /\ MaxStall \in Nat /\ Slow \in Nat
         /\ HoldSeen = Hold - 2 * MaxStall
         /\ Grace = Slow + 2 * MaxStall
         /\ blind \in BOOLEAN
BY Times, GraceType DEF RestTypeOK, HoldSeen

(* A scan takes one from the ten seconds and adds one to the turn.          *)
LEMMA HoldScanTime ==
  ASSUME PanelInv, HoldInv, ScanTime, pc # "configure"
  PROVE  /\ holdLeft' \in Nat /\ holdLeft' + 1 >= holdLeft
         /\ stall' = stall + 1 /\ stall' <= MaxStall
         /\ pc' = pc
         /\ pc \in PinSteps => holdLeft' = 0
<1>1. /\ holdLeft' = Less(holdLeft) /\ pc' = pc
      /\ stall < MaxStall /\ stall' = stall + 1
  <2>1. stall \in Nat /\ stall <= MaxStall /\ MaxStall \in Nat
    BY HoldNumbers DEF PanelInv
  <2> QED
    BY <2>1 DEF ScanTime, mainVars
<1>2. holdLeft \in Nat /\ stall \in Nat /\ MaxStall \in Nat
  BY HoldNumbers DEF PanelInv
<1>3. holdLeft' \in Nat /\ holdLeft' + 1 >= holdLeft
  BY <1>1, <1>2 DEF Less
<1>4. pc \in PinSteps => holdLeft' = 0
  BY <1>1 DEF HoldInv, Less
<1> QED
  BY <1>1, <1>2, <1>3, <1>4

LEMMA HoldScanReads ==
  ASSUME PanelInv, HoldInv, ScanReads
  PROVE  HoldInv'
<1>1. /\ ReadSensor /\ ScanTime /\ isOK = TRUE
  BY DEF ScanReads
<1>2. pc # "configure"
  BY <1>1 DEF PanelInv, BusExclusive
<1>3. /\ holdLeft' \in Nat /\ holdLeft' + 1 >= holdLeft
      /\ stall' = stall + 1 /\ stall' <= MaxStall
      /\ pc' = pc
      /\ pc \in PinSteps => holdLeft' = 0
  BY <1>1, <1>2, HoldScanTime
<1>4. /\ calm' = IF finger # {} THEN 0 ELSE IF calm > Grace THEN calm ELSE calm + 1
      /\ blind' = (blind /\ finger = {})
      /\ held' = IF Released(calm', blind') THEN 0 ELSE OneMore(held)
  BY <1>1 DEF ReadSensor
<1>5. /\ holdLeft \in Nat /\ held \in Nat /\ calm \in Nat
      /\ stall \in Nat /\ stall <= MaxStall
      /\ Hold \in Nat /\ MaxStall \in Nat /\ Slow \in Nat
      /\ HoldSeen = Hold - 2 * MaxStall
      /\ Grace = Slow + 2 * MaxStall
      /\ blind \in BOOLEAN
  BY HoldNumbers DEF PanelInv
<1>6. calm' \in Nat /\ (calm' = 0 \/ calm' <= calm + 1)
  BY <1>4, <1>5
<1>7. ~blind' /\ calm' # 0 => ~blind
  BY <1>4, Zenon
<1>8. ~Late' => ~Late
  <2>1. CASE calm' = 0
    BY <1>3, <1>5, <2>1, SlowConstant DEF Late
  <2>2. CASE calm' # 0 /\ blind
    BY <1>7, <2>2 DEF Late
  <2>3. CASE calm' # 0 /\ ~blind
    BY <1>3, <1>5, <1>6, <2>3, SlowConstant DEF Late
  <2> QED
    BY <2>1, <2>2, <2>3
<1> DEFINE h == holdLeft
           g == holdLeft'
           t == stall'
<1>9. h \in Nat /\ g \in Nat /\ stall \in Nat /\ t \in Nat /\ MaxStall \in Nat
      /\ Hold \in Nat
  BY <1>3, <1>5
<1>10. g + 1 >= h /\ t = stall + 1 /\ t <= MaxStall
  BY <1>3
<1>11. /\ h >= Hold - stall => g >= Hold - t
       /\ h >= Hold - MaxStall - stall => g >= Hold - MaxStall - t
       /\ g >= Hold - MaxStall - t => g + 0 >= Hold - 2 * MaxStall
       /\ \A n \in Nat : h + n >= Hold - 2 * MaxStall =>
            /\ g + (n + 1) >= Hold - 2 * MaxStall
            /\ n >= Hold - 2 * MaxStall => g + n >= Hold - 2 * MaxStall
  <2> HIDE DEF h, g, t
  <2> QED
    BY <1>9, <1>10
<1>12. pc' = "boot" => Late' \/ holdLeft' >= Hold - stall'
  <2>1. ASSUME pc' = "boot", ~Late' PROVE holdLeft' >= Hold - stall'
    BY <1>3, <1>8, <1>11, <2>1, Zenon DEF HoldInv
  <2> QED
    BY <2>1, Zenon
<1>13. \/ Late' \/ calm' <= Slow + MaxStall + stall'
       \/ holdLeft' >= Hold - MaxStall - stall'
  <2>1. ASSUME ~Late', ~(calm' <= Slow + MaxStall + stall')
        PROVE  holdLeft' >= Hold - MaxStall - stall'
    <3>1. ~(calm' = 0)
      BY <1>3, <1>5, <2>1
    <3>2. ~Late /\ calm' <= calm + 1
      BY <1>6, <1>8, <2>1, <3>1, Zenon
    <3>3. ~(calm <= Slow + MaxStall + stall)
      BY <1>3, <1>5, <1>6, <2>1, <3>2
    <3> QED
      BY <1>11, <3>2, <3>3, Zenon DEF HoldInv
  <2> QED
    BY <2>1, Zenon
<1>14. holdLeft' + held' >= HoldSeen
  <2>1. CASE Released(calm', blind')
    <3>1. held' = 0 /\ calm' > Grace /\ ~blind'
      BY <1>4, <2>1 DEF Released
    <3>2. ~Late' /\ ~(calm' <= Slow + MaxStall + stall')
      BY <1>3, <1>5, <1>6, <3>1, SlowConstant DEF Late
    <3>3. holdLeft' + 0 >= Hold - 2 * MaxStall
      BY <1>13, <1>11, <3>2, Zenon
    <3> QED
      BY <3>1, <3>3 DEF HoldSeen
  <2>2. CASE ~Released(calm', blind')
    <3>1. held' = OneMore(held) /\ holdLeft + held >= HoldSeen /\ held \in Nat
      BY <1>4, <1>5, <2>2 DEF HoldInv
    <3>2. held' = held + 1 \/ (held' = held /\ held >= HoldSeen)
      BY <1>5, <3>1 DEF OneMore, HoldSeen
    <3> QED
      BY <1>11, <3>1, <3>2, Zenon DEF HoldSeen
  <2> QED
    BY <2>1, <2>2, Zenon
<1>15. (pc \in PinSteps => holdLeft = 0)'
  BY <1>3 DEF PinSteps
<1>16. Hold' = Hold /\ MaxStall' = MaxStall /\ HoldSeen' = HoldSeen
  BY DEF HoldSeen
<1> QED
  BY <1>12, <1>13, <1>14, <1>15, <1>16, SlowConstant DEF HoldInv

LEMMA HoldScanFails ==
  ASSUME PanelInv, HoldInv, ScanFails
  PROVE  HoldInv'
<1>1. ScanTime /\ blind' = TRUE /\ held' = OneMore(held) /\ pc' = pc
      /\ holdLeft' = Less(holdLeft)
  BY DEF ScanFails, ScanTime, mainVars
<1>2. Late'
  BY <1>1 DEF Late
<1>3. holdLeft \in Nat /\ held \in Nat /\ HoldSeen \in Int
  BY HoldNumbers DEF PanelInv
<1>4. holdLeft' + held' >= HoldSeen
  BY <1>1, <1>3 DEF HoldInv, Less, OneMore
<1>5. pc' \in PinSteps => holdLeft' = 0
  BY <1>1, <1>3 DEF HoldInv, Less
<1>6. HoldSeen' = HoldSeen
  BY DEF HoldSeen
<1> QED
  BY <1>2, <1>4, <1>5, <1>6 DEF HoldInv, PinSteps

LEMMA HoldHandlers ==
  ASSUME PanelInv, HoldInv, Handlers
  PROVE  HoldInv'
<1>1. CASE ScanReads
  BY <1>1, HoldScanReads
<1>2. CASE ScanFails
  BY <1>2, HoldScanFails
<1>3. CASE ~ScanReads /\ ~ScanFails
  <2>1. UNCHANGED <<blind, calm, held, pc, holdLeft, stall>>
    BY <1>3 DEF Handlers, Touch, Command, BootRequest, ConfigRequest,
       ClickTimer, history, mainVars, timers, bounds
  <2> QED
    BY <2>1, SlowConstant DEF HoldInv, Late, HoldSeen, PinSteps
<1> QED
  BY <1>1, <1>2, <1>3

LEMMA HoldMainStep ==
  ASSUME PanelInv, HoldInv, MainStep
  PROVE  HoldInv'
<1> USE DEF Goto
<1>1. /\ holdLeft \in Nat /\ held \in Nat /\ calm \in Nat
      /\ stall \in Nat /\ stall <= MaxStall
      /\ Hold \in Nat /\ MaxStall \in Nat /\ Slow \in Nat
      /\ HoldSeen = Hold - 2 * MaxStall
  BY HoldNumbers DEF PanelInv
<1>2. Slow' = Slow /\ HoldSeen' = HoldSeen
  BY SlowConstant DEF HoldSeen
<1>3. CASE LoopTop
  <2>1. /\ UNCHANGED <<blind, calm, held, holdLeft>> /\ stall' = 0
        /\ pc = "boot" /\ pc' \in {"restart", "retry"}
    BY <1>3 DEF LoopTop, history, timers
  <2>2. Late \/ holdLeft >= Hold - stall
    BY <2>1 DEF HoldInv
  <2>3. \/ blind' \/ calm' <= Slow + MaxStall
        \/ holdLeft' >= Hold - MaxStall
    BY <1>1, <2>1, <2>2 DEF Late
  <2>4. Late' \/ calm' <= Slow + MaxStall + stall'
              \/ holdLeft' >= Hold - MaxStall - stall'
    BY <1>1, <2>1, <2>3 DEF Late
  <2> QED
    BY <1>2, <2>1, <2>4 DEF HoldInv, PinSteps
<1>4. ASSUME UNCHANGED <<blind, calm, held, holdLeft, stall>>,
             pc' = "boot" => Late \/ holdLeft >= Hold - stall,
             pc' \in PinSteps => holdLeft = 0
      PROVE  HoldInv'
  BY <1>2, <1>4 DEF HoldInv, Late
<1>5. ASSUME UNCHANGED <<blind, calm, held, stall>>, holdLeft' = Hold,
             pc' \notin PinSteps
      PROVE  HoldInv'
  BY <1>1, <1>2, <1>5 DEF HoldInv, Late
<1>6. CASE RetryTest \/ Look
  <2>1. /\ UNCHANGED <<blind, calm, held, holdLeft, stall>>
        /\ pc' \notin PinSteps /\ pc' # "boot"
    BY <1>6 DEF RetryTest, Look, history, bounds, timers, PinSteps
  <2> QED
    BY <1>4, <2>1
<1>7. CASE Arm \/ ResetPin
  <2>1. /\ UNCHANGED <<blind, calm, held, stall>>
        /\ holdLeft' = Hold /\ pc' \notin PinSteps
    BY <1>7 DEF Arm, ResetPin, history, bounds, PinSteps
  <2> QED
    BY <1>5, <2>1
<1>8. CASE Expire
  <2>1. /\ UNCHANGED <<blind, calm, held, holdLeft, stall>>
        /\ pc = "expire" /\ pc' = IF holdLeft > 0 THEN "boot" ELSE "beepTest"
    BY <1>8 DEF Expire, history, bounds, timers
  <2>2. Late \/ holdLeft >= Hold - stall
    BY <2>1 DEF PanelInv, CalmInv
  <2>3. pc' \in PinSteps => holdLeft = 0
    BY <1>1, <2>1 DEF PinSteps
  <2> QED
    BY <1>4, <2>1, <2>2, <2>3
<1>9. CASE BeepTest \/ BeepOn \/ BeepCounter \/ BeepEnable \/ BeepTimes
  <2>1. /\ UNCHANGED <<blind, calm, held, holdLeft, stall>>
        /\ pc \in PinSteps /\ pc' # "boot"
    BY <1>9 DEF BeepTest, BeepOn, BeepCounter, BeepEnable, BeepTimes, BeepStore,
       history, bounds, timers, PinSteps
  <2>2. holdLeft = 0
    BY <2>1 DEF HoldInv
  <2> QED
    BY <1>4, <2>1, <2>2
<1>10. ASSUME NEW ok \in BOOLEAN, Configure(ok) PROVE HoldInv'
  <2>1. /\ UNCHANGED <<blind, calm, held, holdLeft, stall>>
        /\ pc' = "look"
    BY <1>10 DEF Configure, history
  <2> QED
    BY <1>4, <2>1 DEF PinSteps
<1>11. ASSUME NEW ok \in BOOLEAN, Restart(ok) PROVE HoldInv'
  <2>1. /\ holdLeft' = Hold /\ held' = 0 /\ stall' = 0 /\ pc' = "boot"
        /\ calm' = 0
    BY <1>11 DEF Restart
  <2> QED
    BY <1>1, <1>2, <2>1 DEF HoldInv, PinSteps
<1> QED
  BY <1>3, <1>6, <1>7, <1>8, <1>9, <1>10, <1>11 DEF MainStep

LEMMA HoldInvariant == Spec => []HoldInv
<1>1. Init => HoldInv
  <2> SUFFICES ASSUME Init PROVE HoldInv
    OBVIOUS
  <2>1. /\ holdLeft = Hold /\ held = 0 /\ stall = 0 /\ pc = "boot"
    BY DEF Init
  <2>2. Hold \in Nat /\ MaxStall \in Nat /\ HoldSeen = Hold - 2 * MaxStall
    BY Times DEF HoldSeen
  <2> QED
    BY <2>1, <2>2 DEF HoldInv, PinSteps
<1>2. PanelInv /\ HoldInv /\ [Next]_vars => HoldInv'
  <2>1. ASSUME PanelInv, HoldInv, Next PROVE HoldInv'
    BY <2>1, HoldHandlers, HoldMainStep DEF Next
  <2>2. ASSUME HoldInv, UNCHANGED vars PROVE HoldInv'
    <3>1. UNCHANGED <<blind, calm, held, holdLeft, stall, pc>>
      BY <2>2 DEF vars, mainVars, timers, history, bounds
    <3> QED
      BY <2>2, <3>1, SlowConstant DEF HoldInv, Late, HoldSeen, PinSteps
  <2> QED
    BY <2>1, <2>2
<1> QED
  BY <1>1, <1>2, CalmInvariant, PTL DEF Spec

(* The PIN goes back to its default only at the end of a hold: for ten      *)
(* seconds, but for two turns of the main loop, the panel has never been    *)
(* known to be released, that is without a touch for longer than filters    *)
(* and two turns take and without a failed scan (main.c:532-542): whatever  *)
(* touches, scans, commands and restarts come between the loop's steps.     *)
THEOREM PinResetOnlyByTouch == Spec => []PinResetNeedsTouch
<1>1. PanelInv /\ HoldInv => PinResetNeedsTouch
  <2> SUFFICES ASSUME PanelInv, HoldInv, pc = "resetPin"
               PROVE  held >= HoldSeen /\ ~Released(calm, blind)
    BY DEF PinResetNeedsTouch
  <2>1. /\ calm \in Nat /\ stall \in Nat /\ stall <= MaxStall
        /\ MaxStall \in Nat /\ Slow \in Nat /\ held \in Nat
        /\ Grace = Slow + 2 * MaxStall
    BY HoldNumbers DEF PanelInv
  <2>2. holdLeft = 0 /\ Late
    BY DEF PanelInv, HoldInv, CalmInv, PinSteps
  <2>3. held >= HoldSeen
    BY <2>1, <2>2 DEF HoldInv
  <2>4. blind \/ calm <= Grace
    BY <2>1, <2>2 DEF Late
  <2>5. ~(calm > Grace) \/ blind
    <3>1. Grace \in Nat
      BY <2>1
    <3> QED
      BY <2>1, <2>4, <3>1
  <2> QED
    BY <2>3, <2>5 DEF Released
<1> QED
  BY <1>1, CalmInvariant, HoldInvariant, PTL
=============================================================================
