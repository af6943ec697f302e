---------------------------- MODULE TimeoutProofs ----------------------------
(***************************************************************************)
(* Proofs about Timeout, for every width of the counter, tick interval and *)
(* set of durations.                                                       *)
(***************************************************************************)
EXTENDS Timeout, TLAPS

\* The counter is where the timeout started, the time of the present turn
\* later, modulo its width: whole turns leave it where it was.
Tracks == now = Sum(start, age)

\* A check that returned 0 came at or after the end.
Inv == TypeOK /\ Tracks /\ NeverEarly

(* What CheckTimeout takes to have passed is the time of the present turn,  *)
(* or one less.                                                             *)
LEMMA ElapsedAge ==
  ASSUME TypeOK, Tracks
  PROVE  Elapsed \in {age, age - 1}
BY TimeoutAssumption DEF TypeOK, Tracks, Elapsed, Sum, Counter

LEMMA InitInv == Init => Inv
<1> SUFFICES ASSUME Init PROVE Inv
  OBVIOUS
<1>1. TypeOK
  BY TimeoutAssumption DEF Init, TypeOK, Counter
<1>2. Tracks
  BY <1>1, TimeoutAssumption DEF Init, Tracks, Sum, TypeOK, Counter
<1> QED
  BY <1>1, <1>2 DEF Init, Inv, NeverEarly

LEMMA NextInv ==
  ASSUME Inv, Next
  PROVE  Inv'
<1> USE TimeoutAssumption DEF Inv
<1>1. CASE Tick
  <2>1. TypeOK'
    BY <1>1 DEF Tick, TypeOK, Counter, Sum
  <2>2. Tracks'
    BY <1>1 DEF Tick, TypeOK, Tracks, Counter, Sum
  <2>3. NeverEarly'
    <3>1. CASE age + Interval >= Modulus
      <4>1. turns' = turns + 1
        BY <1>1, <3>1 DEF Tick
      <4> QED
        BY <4>1 DEF NeverEarly, TypeOK
    <3>2. CASE ~(age + Interval >= Modulus)
      <4>1. turns' = turns + 0 /\ age' = age + Interval
        BY <1>1, <3>2 DEF Tick, Sum
      <4> QED
        BY <1>1, <4>1 DEF Tick, NeverEarly, TypeOK, Counter
    <3> QED
      BY <3>1, <3>2
  <2> QED
    BY <2>1, <2>2, <2>3
<1>2. CASE \E d \in Durations : InitTimeout(d)
  <2>1. TypeOK'
    BY <1>2 DEF InitTimeout, TypeOK, Counter
  <2>2. Tracks'
    BY <1>2 DEF InitTimeout, TypeOK, Tracks, Counter, Sum
  <2>3. NeverEarly'
    BY <1>2 DEF InitTimeout, NeverEarly
  <2> QED
    BY <2>1, <2>2, <2>3
<1>3. CASE CheckTimeout
  <2>1. Elapsed \in {age, age - 1}
    BY ElapsedAge
  <2>2. UNCHANGED <<now, start, timeout, crc, elapsed>>
    BY <1>3 DEF CheckTimeout
  <2>3. /\ age \in Counter
        /\ timeout \in Counter
        /\ crc = Sum(start, timeout)
    BY DEF TypeOK, Counter
  <2>4. /\ result' \in -1..(Modulus - 1)
        /\ result' = 0 => age >= timeout
    <3>1. result' = IF Elapsed >= timeout THEN 0 ELSE timeout - Elapsed
      BY <1>3, <2>3 DEF CheckTimeout, Remaining
    <3>2. Elapsed \in -1..(Modulus - 1) /\ Elapsed <= age
      BY <2>1, <2>3 DEF Counter
    <3>3. Elapsed >= 0
      BY <2>1, <2>3 DEF Elapsed, TypeOK, Counter
    <3> QED
      BY <2>3, <3>1, <3>2, <3>3 DEF Counter
  <2>5. TypeOK'
    BY <2>2, <2>4 DEF TypeOK, Sum, elapsed
  <2>6. Tracks'
    BY <2>2 DEF Tracks, Sum, elapsed
  <2>7. NeverEarly'
    BY <2>2, <2>4 DEF NeverEarly, elapsed
  <2> QED
    BY <2>5, <2>6, <2>7
<1> HIDE DEF Inv
<1> QED
  BY <1>1, <1>2, <1>3 DEF Next

LEMMA Invariant == Spec => []Inv
<1>1. ASSUME Inv, UNCHANGED vars PROVE Inv'
  BY <1>1 DEF Inv, TypeOK, Tracks, NeverEarly, Sum, vars, elapsed
<1> QED
  BY <1>1, InitInv, NextInv, PTL DEF Spec

(* The timeout's fields stay within the counter's width, and its checksum   *)
(* valid (sys_tick.c:65-87).                                                *)
THEOREM TimeoutTypeCorrect == Spec => []TypeOK
BY Invariant, PTL DEF Inv

(* A timeout never expires early, whatever the counter's width and phase,   *)
(* and whatever the tick interval (sys_tick.c:65-87).                       *)
THEOREM TimeoutNeverEarly == Spec => []NeverEarly
BY Invariant, PTL DEF Inv

(* What a check says is left is what is left in the counter's present turn, *)
(* or one unit more, however many turns have passed (sys_tick.c:79-87): the *)
(* branch taken after a wrap-around is late by one unit and no more.        *)
THEOREM TimeoutLateByTurns == Spec => TimeLeftWithinTurn
<1>1. ASSUME Inv, CheckTimeout, result' # 0
      PROVE  result' - (timeout - age) \in {0, 1}
  <2>1. Elapsed \in {age, age - 1}
    BY <1>1, ElapsedAge DEF Inv
  <2>2. age \in Int /\ timeout \in Int
    BY <1>1, TimeoutAssumption DEF Inv, TypeOK, Counter
  <2>3. result' = timeout - Elapsed
    BY <1>1 DEF CheckTimeout, Remaining
  <2> QED
    BY <2>1, <2>2, <2>3
<1>2. Inv => [CheckTimeout /\ result' # 0 => result' - (timeout - age) \in {0, 1}]_vars
  BY <1>1
<1> QED
  BY <1>2, Invariant, PTL DEF TimeLeftWithinTurn
=============================================================================
