-------------------------- MODULE ResetTimeoutProofs --------------------------
(***************************************************************************)
(* Proofs about ResetTimeout, for every width of the counter, tick         *)
(* interval, delay and number of renames.                                  *)
(***************************************************************************)
EXTENDS ResetTimeout, TLAPS

\* The time from b to a on the counter, less than one turn of it.
Lag(a, b) == IF a >= b THEN a - b ELSE a - b + Modulus

LEMMA LagIsMod ==
  ASSUME NEW a \in T!Counter, NEW b \in T!Counter
  PROVE  (a - b) % Modulus = Lag(a, b)
<1>1. Modulus \in Nat \ {0} /\ a \in 0..(Modulus - 1) /\ b \in 0..(Modulus - 1)
  BY ResetTimeoutAssumption DEF T!Counter
<1>2. CASE a >= b
  <2>1. a - b \in 0..(Modulus - 1)
    BY <1>1, <1>2
  <2> QED
    BY <1>1, <1>2, <2>1 DEF Lag
<1>3. CASE a < b
  <2>1. a - b + Modulus \in 0..(Modulus - 1)
    BY <1>1, <1>3
  <2>2. (a - b + Modulus) % Modulus = a - b + Modulus
    BY <1>1, <2>1
  <2>3. (a - b) % Modulus = (a - b + Modulus) % Modulus
    BY <1>1
  <2> QED
    BY <1>1, <1>3, <2>2, <2>3 DEF Lag
<1> QED
  BY <1>1, <1>2, <1>3

\* The true time since the last request is at least d, or past the delay.
AtLeast(d) == d <= age \/ age = Delay

\* The timeout, when no request has met the main loop at work on it.
Armed ==
  /\ timeout = Delay
  /\ AtLeast(Lag(now, start))
  /\ pc \notin {"armSum", "armCrc"} => crc = T!Sum(start, timeout)
  /\ pc \in {"armCrc", "compare", "store"} => sum = T!Sum(start, timeout)
  /\ pc = "armStart" => Lag(now, time) <= Lag(now, start)
  /\ pc \in {"load", "store", "elapsed"} => AtLeast(Lag(time, start))
  /\ pc = "reset" => age = Delay

Inv ==
  /\ TypeOK
  /\ flag = "none" => pc = "task"
  /\ flag # "none" /\ ~disturbed => Armed

-----------------------------------------------------------------------------
(* Ranges.                                                                  *)

LEMMA SumType ==
  ASSUME NEW a \in T!Counter, NEW b \in T!Counter
  PROVE  T!Sum(a, b) \in T!Counter
BY ResetTimeoutAssumption DEF T!Counter, T!Sum

LEMMA ConstantsType ==
  /\ Interval \in T!Counter /\ Delay \in T!Counter /\ 0 \in T!Counter
  /\ 0 \in 0..Delay /\ Delay \in 0..Delay
BY ResetTimeoutAssumption DEF T!Counter

LEMMA TypeStep ==
  ASSUME TypeOK, [Next]_vars
  PROVE  TypeOK'
<1> USE DEF TypeOK, Goto, timer
<1>1. CASE Tick
  <2>1. now' \in T!Counter
    BY <1>1, SumType, ConstantsType DEF Tick
  <2>2. age' \in 0..Delay
    BY <1>1, ResetTimeoutAssumption DEF Tick
  <2> QED
    BY <1>1, <2>1, <2>2 DEF Tick
<1>2. CASE Request
  <2>1. crc' \in T!Counter
    BY <1>2, SumType, ConstantsType DEF Request, T!InitTimeout
  <2>2. requests' \in 0..MaxRequests
    BY <1>2, ResetTimeoutAssumption DEF Request
  <2>3. disturbed' \in BOOLEAN
    BY <1>2, Zenon DEF Request
  <2> QED
    BY <1>2, <2>1, <2>2, <2>3, ConstantsType DEF Request, T!InitTimeout
<1>3. CASE Task
  BY <1>3 DEF Task
<1>4. CASE ArmRead \/ ArmStart \/ ArmCrc \/ Waiting
  BY <1>4 DEF ArmRead, ArmStart, ArmCrc, Waiting
<1>5. CASE ArmSum \/ CheckSum \/ CheckLoad
  <2>1. T!Sum(start, timeout) \in T!Counter
    BY SumType, ConstantsType
  <2> QED
    BY <1>5, <2>1 DEF ArmSum, CheckSum, CheckLoad
<1>6. CASE CheckCrc \/ CheckTime \/ CheckStore \/ CheckElapsed
  BY <1>6 DEF CheckCrc, CheckTime, CheckStore, CheckElapsed
<1>7. CASE Restart
  <2>1. 0 \in 0..MaxRequests
    BY ResetTimeoutAssumption
  <2> QED
    BY <1>7, <2>1, ConstantsType DEF Restart
<1>8. CASE UNCHANGED vars
  BY <1>8 DEF vars
<1> QED
  BY <1>1, <1>2, <1>3, <1>4, <1>5, <1>6, <1>7, <1>8 DEF Next, MainStep

-----------------------------------------------------------------------------
(* The timeout of a request that met nobody.                                *)

LEMMA ArmedTick ==
  ASSUME TypeOK, flag # "none", Armed, Tick
  PROVE  Armed'
<1>1. /\ now' = T!Sum(now, Interval)
      /\ age' = IF age + Interval < Delay THEN age + Interval ELSE Delay
      /\ start' = start /\ timeout' = timeout /\ crc' = crc /\ flag' = flag
      /\ pc' = pc /\ time' = time /\ sum' = sum
      /\ Lag(now, start) + Interval < Modulus
  BY LagIsMod DEF Tick, TypeOK, timer
<1>2. /\ Modulus \in Nat \ {0} /\ Interval \in 1..(Modulus - 1)
      /\ Delay \in 1..(Modulus - 1)
      /\ now \in 0..(Modulus - 1) /\ start \in 0..(Modulus - 1)
      /\ time \in 0..(Modulus - 1) /\ age \in 0..Delay
  BY ResetTimeoutAssumption DEF TypeOK, T!Counter
<1>3. Lag(now, start)' = Lag(now, start) + Interval
  BY <1>1, <1>2 DEF Lag, T!Sum
<1>4. AtLeast(Lag(now, start))'
  BY <1>1, <1>2, <1>3 DEF Armed, AtLeast, Lag
<1>5. ASSUME pc = "armStart" PROVE Lag(now, time)' <= Lag(now, start)'
  <2>1. Lag(now, time) <= Lag(now, start)
    BY <1>5 DEF Armed
  <2>2. Lag(now, time)' = Lag(now, time) + Interval
    BY <1>1, <1>2, <2>1 DEF Lag, T!Sum
  <2> QED
    BY <1>2, <1>3, <2>1, <2>2 DEF Lag
<1>6. AtLeast(Lag(time, start)) => AtLeast(Lag(time, start))'
  BY <1>1, <1>2 DEF AtLeast, Lag
<1> QED
  BY <1>1, <1>2, <1>4, <1>5, <1>6 DEF Armed, T!Sum

LEMMA ArmedRequest ==
  ASSUME TypeOK, Request, ~disturbed'
  PROVE  Armed'
<1>1. /\ pc \in {"task", "armRead", "waiting", "sum", "time"}
      /\ start' = now /\ now' = now /\ timeout' = Delay
      /\ crc' = T!Sum(now, Delay) /\ age' = 0 /\ pc' = pc
  BY DEF Request, AtRest, T!InitTimeout
<1>2. Lag(now, start)' = 0 /\ Delay \in Nat
  BY <1>1, ResetTimeoutAssumption DEF Lag, TypeOK, T!Counter
<1> QED
  BY <1>1, <1>2 DEF Armed, AtLeast, T!Sum

LEMMA ArmedMain ==
  ASSUME TypeOK, flag # "none", Armed, MainStep, ~Restart
  PROVE  Armed'
<1> USE DEF Goto, timer
<1>1. /\ Modulus \in Nat \ {0}
      /\ Delay \in 1..(Modulus - 1)
      /\ now \in 0..(Modulus - 1) /\ start \in 0..(Modulus - 1)
      /\ time \in 0..(Modulus - 1) /\ age \in 0..Delay
  BY ResetTimeoutAssumption DEF TypeOK, T!Counter
<1>2. CASE Task
  BY <1>2 DEF Task, TypeOK, Armed, AtLeast, Lag, T!Sum
<1>3. CASE ArmRead
  <2>1. Lag(now', time') = 0
    BY <1>1, <1>3 DEF ArmRead, Lag
  <2>2. Lag(now, start) >= 0
    BY <1>1 DEF Lag
  <2> QED
    BY <1>3, <2>1, <2>2 DEF ArmRead, Armed, AtLeast, Lag, T!Sum
<1>4. CASE ArmStart
  <2>1. AtLeast(Lag(now, time))
    BY <1>1, <1>4 DEF ArmStart, Armed, AtLeast, Lag
  <2> QED
    BY <1>4, <2>1 DEF ArmStart, Armed, AtLeast, Lag
<1>5. CASE ArmSum \/ ArmCrc \/ Waiting \/ CheckSum
  BY <1>5 DEF ArmSum, ArmCrc, Waiting, CheckSum, Armed, AtLeast, Lag, T!Sum
<1>6. CASE CheckCrc
  <2>1. pc' = "time"
    BY <1>6 DEF CheckCrc, Armed
  <2> QED
    BY <1>6, <2>1 DEF CheckCrc, Armed, AtLeast, Lag, T!Sum
<1>7. CASE CheckTime
  BY <1>7 DEF CheckTime, Armed, AtLeast, Lag, T!Sum
<1>8. CASE CheckLoad \/ CheckStore
  BY <1>8 DEF CheckLoad, CheckStore, Armed, AtLeast, Lag, T!Sum
<1>9. CASE CheckElapsed
  <2>1. Since(time) <= Lag(time, start)
    BY <1>1 DEF Since, Lag
  <2>2. Since(time) >= Delay => age = Delay
    BY <1>1, <1>9, <2>1 DEF CheckElapsed, Armed, AtLeast, Since, Lag
  <2>3. /\ timeout = Delay /\ crc = T!Sum(start, timeout) /\ AtLeast(Lag(now, start))
        /\ pc' = IF Since(time) >= timeout THEN "reset" ELSE "task"
        /\ UNCHANGED <<now, start, timeout, crc, time, sum, age>>
    BY <1>9 DEF CheckElapsed, Armed
  <2> QED
    BY <2>2, <2>3 DEF Armed, AtLeast, Lag, T!Sum
<1> QED
  BY <1>2, <1>3, <1>4, <1>5, <1>6, <1>7, <1>8, <1>9 DEF MainStep

-----------------------------------------------------------------------------

LEMMA InitInv == Init => Inv
<1>1. 0 \in 0..MaxRequests
  BY ResetTimeoutAssumption
<1> QED
  BY <1>1, ConstantsType DEF Init, Inv, TypeOK

LEMMA NextInv == Inv /\ [Next]_vars => Inv'
<1> SUFFICES ASSUME Inv, [Next]_vars PROVE Inv'
  OBVIOUS
<1>1. TypeOK'
  BY TypeStep DEF Inv
<1>2. flag' = "none" => pc' = "task"
  <2>1. CASE Tick \/ Request \/ UNCHANGED vars
    BY <2>1 DEF Tick, Request, Inv, vars
  <2>2. CASE MainStep
    BY <2>2 DEF MainStep, Task, ArmRead, ArmStart, ArmSum, ArmCrc, Waiting,
                CheckSum, CheckCrc, CheckTime, CheckLoad, CheckStore,
                CheckElapsed, Restart, Inv, Goto
  <2> QED
    BY <2>1, <2>2 DEF Next
<1>3. flag' # "none" /\ ~disturbed' => Armed'
  <2>1. CASE Tick
    BY <2>1, ArmedTick DEF Tick, Inv
  <2>2. CASE Request
    BY <2>2, ArmedRequest DEF Inv
  <2>3. CASE MainStep /\ ~Restart
    <3>1. flag' # "none" => flag # "none"
      BY <2>3 DEF MainStep, Task, ArmRead, ArmStart, ArmSum, ArmCrc, Waiting,
                  CheckSum, CheckCrc, CheckTime, CheckLoad, CheckStore,
                  CheckElapsed, Inv
    <3>2. disturbed' = disturbed
      BY <2>3 DEF MainStep, Task, ArmRead, ArmStart, ArmSum, ArmCrc, Waiting,
                  CheckSum, CheckCrc, CheckTime, CheckLoad, CheckStore,
                  CheckElapsed
    <3> QED
      BY <2>3, <3>1, <3>2, ArmedMain DEF Inv
  <2>4. CASE Restart
    BY <2>4 DEF Restart
  <2>5. CASE UNCHANGED vars
    BY <2>5 DEF Inv, Armed, AtLeast, Lag, T!Sum, vars, timer
  <2> QED
    BY <2>1, <2>2, <2>3, <2>4, <2>5 DEF Next
<1> QED
  BY <1>1, <1>2, <1>3 DEF Inv

LEMMA Invariant == Spec => []Inv
BY InitInv, NextInv, PTL DEF Spec

(* The timeout's fields stay within the counter's width, although handler   *)
(* and main loop write them in turns (system_config.c:188, 213).            *)
THEOREM ResetTypeCorrect == Spec => []TypeOK
BY Invariant, PTL DEF Inv

(* The board restarts before the delay has passed since the last rename     *)
(* only if that rename met the main loop arming or checking the timeout     *)
(* (system_config.c:188, 213; sys_tick.c:67-86), or came after the check    *)
(* that found it over (system_config.c:213-215).                            *)
THEOREM RestartNotEarly == Spec => []EarlyOnlyIfDisturbed
<1>1. Inv => EarlyOnlyIfDisturbed
  BY DEF Inv, Armed, EarlyOnlyIfDisturbed
<1> QED
  BY <1>1, Invariant, PTL
=============================================================================
