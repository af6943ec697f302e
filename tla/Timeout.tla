------------------------------- MODULE Timeout -------------------------------
(***************************************************************************)
(* lib/sys_tick.c: a millisecond counter that an interrupt advances by     *)
(* SYSTICK_INTERVAL and that wraps around, and the timeouts measured with  *)
(* it.  The timeouts the main loop both arms and checks (the send guard,   *)
(* the touch-sensor retry, the ten-second hold) share only the counter     *)
(* with the interrupt, which CheckTimeout reads once: a check is one step. *)
(***************************************************************************)
EXTENDS Integers

CONSTANTS
  Modulus,    \* values of the counter, 2^32
  Interval,   \* SYSTICK_INTERVAL, 10
  Durations,  \* what timeouts are armed with
  MaxTurns    \* bound on whole turns of the counter between arming and a check

ASSUME TimeoutAssumption ==
  /\ Modulus \in Nat \ {0}
  /\ Interval \in 1..(Modulus - 1)
  /\ Durations \subseteq 0..(Modulus - 1)
  /\ MaxTurns \in Nat

Counter == 0..(Modulus - 1)

VARIABLES
  now,      \* sysTickCounter32
  start,    \* Timeout_Type.start_time
  timeout,  \* Timeout_Type.timeout
  crc,      \* Timeout_Type.crc
  result,   \* what the last CheckTimeout returned, or -1 before the first
  \* True time since InitTimeout, read by the properties only:
  turns,    \* whole turns of the counter,
  age       \* and the time since the last of them

elapsed == <<turns, age>>
vars == <<now, start, timeout, crc, result, elapsed>>

-----------------------------------------------------------------------------
\* Faulty variant of Sum: the sum is kept wider than the counter.
SumWide(a, b) == a + b

\* An unsigned sum of two values of the counter.
Sum(a, b) == IF a + b >= Modulus THEN a + b - Modulus ELSE a + b

\* The counter's reading as the timeout's start, at a time the property
\* cannot depend on: any value.
Init ==
  /\ now \in Counter
  /\ start = now
  /\ timeout \in Durations
  /\ crc = Sum(start, timeout)
  /\ result = -1
  /\ turns = 0
  /\ age = 0

\* SysTick___Task.  Nothing makes the main loop look at a timeout within one
\* turn of the counter: the touch sensor's is armed when the sensor starts
\* and looked at when it fails (main.c:498, 516, 529).
Tick ==
  LET turned == IF age + Interval >= Modulus THEN 1 ELSE 0
  IN
  /\ turns + turned <= MaxTurns
  /\ now' = Sum(now, Interval)
  /\ age' = Sum(age, Interval)
  /\ turns' = turns + turned
  /\ UNCHANGED <<start, timeout, crc, result>>

\* Faulty variant of InitTimeout: the checksum of the previous timeout stays.
InitTimeoutNoCrc(d) ==
  /\ start' = now
  /\ timeout' = d
  /\ result' = -1
  /\ turns' = 0
  /\ age' = 0
  /\ UNCHANGED <<now, crc>>

\* InitTimeout.
InitTimeout(d) ==
  /\ start' = now
  /\ timeout' = d
  /\ crc' = Sum(now, d)
  /\ result' = -1
  /\ turns' = 0
  /\ age' = 0
  /\ UNCHANGED now

\* Faulty variant of Elapsed: the counter has not wrapped around.
ElapsedNoWrap == IF now >= start THEN now - start ELSE Modulus

\* The time CheckTimeout takes to have passed; past a wrap-around it adds up
\* 0xFFFFFFFF - start_time and the counter, one less than there is.
Elapsed == IF now >= start THEN now - start ELSE (Modulus - 1 - start) + now

\* Faulty variant of Remaining: it expires one unit of time late.
RemainingLate ==
  IF crc # Sum(start, timeout) \/ Elapsed > timeout + 1 THEN 0
  ELSE IF timeout <= Elapsed THEN 1 ELSE timeout - Elapsed

\* What CheckTimeout returns: 0 when the timeout has expired, or when its
\* checksum does not match.
Remaining ==
  IF crc # Sum(start, timeout) \/ Elapsed >= timeout THEN 0
  ELSE timeout - Elapsed

\* CheckTimeout.
CheckTimeout ==
  /\ result' = Remaining
  /\ UNCHANGED <<now, start, timeout, crc, elapsed>>

Next == Tick \/ (\E d \in Durations : InitTimeout(d)) \/ CheckTimeout

Spec == Init /\ [][Next]_vars

-----------------------------------------------------------------------------
(* Properties.                                                             *)

\* The timeout's fields stay within 32 bits and its checksum valid.
TypeOK ==
  /\ now \in Counter
  /\ start \in Counter
  /\ timeout \in Durations
  /\ crc = Sum(start, timeout)
  /\ result \in -1..(Modulus - 1)
  /\ turns \in 0..MaxTurns
  /\ age \in Counter

\* A timeout never expires early, wrap-around of the counter or not: when a
\* check returns 0, its time has passed (sys_tick.c:72-87).
NeverEarly == result = 0 => turns > 0 \/ age >= timeout

\* The time a check says is left is the time left in the counter's present
\* turn, or one unit more past a wrap-around, where a unit is lost
\* (sys_tick.c:84).  So a timeout looked at within a turn of the counter is
\* seen over at most one unit late; one that nobody looked at for longer
\* (tTouchReinitTimeout after 49.7 days) may be taken for a fresh one, and
\* is seen over late by whole turns and one unit at most.
TimeLeftWithinTurn ==
  [][CheckTimeout /\ result' # 0 => result' - (timeout - age) \in {0, 1}]_vars
=============================================================================
