---------------------------- MODULE ResetTimeout ----------------------------
(***************************************************************************)
(* The restart that a rename asks for (system_config.c): ResetMcuSet arms  *)
(* tMcuResetTimeout in the handler, and the main loop's ResetMcuTask arms  *)
(* it again, then checks it until it has expired.  It is the one timeout   *)
(* that handlers and main loop share, so both functions of sys_tick.c are  *)
(* cut here between their reads and writes of its fields.                  *)
(***************************************************************************)
EXTENDS Integers

CONSTANTS
  Modulus,     \* values of the counter, 2^32
  Interval,    \* SYSTICK_INTERVAL, 10
  Delay,       \* SYSTICK_TIME_SEC(1), 1000
  MaxRequests  \* bound on renames between two starts

ASSUME ResetTimeoutAssumption ==
  /\ Modulus \in Nat \ {0}
  /\ Interval \in 1..(Modulus - 1)
  /\ Delay \in 1..(Modulus - 1)
  /\ MaxRequests \in Nat

VARIABLES
  now,      \* sysTickCounter32
  start,    \* tMcuResetTimeout.start_time
  timeout,  \* tMcuResetTimeout.timeout
  crc,      \* tMcuResetTimeout.crc
  flag,     \* sysResetMcuFlag
  pc,       \* where the main loop stands in ResetMcuTask
  time,     \* the counter's reading on its way to start_time, or u32temp
  sum,      \* start_time + timeout as loaded, to be compared with or stored in crc
  \* History, read by the properties only.
  age,       \* true time since the last request, up to Delay
  disturbed, \* a request has met the main loop at work on the timeout
  requests   \* requests taken since the board started

timer == <<start, timeout, crc>>
vars == <<now, timer, flag, pc, time, sum, age, disturbed, requests>>

\* The counter and InitTimeout are those of Timeout; its last result is not
\* kept.
T == INSTANCE Timeout
     WITH Durations <- {0, Delay}, MaxTurns <- 0, result <- -1, turns <- 0

Init ==
  /\ now = 0
  /\ start = 0
  /\ timeout = 0
  /\ crc = 0
  /\ flag = "none"
  /\ pc = "task"
  /\ time = 0
  /\ sum = 0
  /\ age = 0
  /\ disturbed = FALSE
  /\ requests = 0

-----------------------------------------------------------------------------
(* Interrupt handlers.                                                     *)

\* SysTick___Task.  While a restart is under way the main loop looks at its
\* timeout within one turn of the counter.
Tick ==
  /\ flag # "none" => ((now - start) % Modulus) + Interval < Modulus
  /\ now' = T!Sum(now, Interval)
  /\ age' = IF age + Interval < Delay THEN age + Interval ELSE Delay
  /\ UNCHANGED <<timer, flag, pc, time, sum, disturbed, requests>>

\* Where a request leaves the main loop nothing to spoil: it is between two
\* looks at the timeout, has read nothing of it yet, or reads the rest after.
AtRest == pc \in {"task", "armRead", "waiting", "sum", "time"}

\* PACKET_OPCODE_NAME: ResetMcuSet(MCU_RESET_AFTER_1_SEC), at any moment, also
\* between the check that finds the timeout over and the reset it leads to.
Request ==
  /\ requests < MaxRequests
  /\ T!InitTimeout(Delay)
  /\ flag' = "after"
  /\ disturbed' = ~AtRest
  /\ requests' = requests + 1
  /\ UNCHANGED <<pc, time, sum>>

-----------------------------------------------------------------------------
(* ResetMcuTask in the main loop.                                          *)

Goto(l) == pc' = l

\* switch(sysResetMcuFlag), and the rest of the main loop after it.
Task ==
  /\ pc = "task"
  /\ Goto(CASE flag = "none" -> "task"
            [] flag = "after" -> "armRead"
            [] flag = "waiting" -> "sum")
  /\ UNCHANGED <<now, timer, flag, time, sum, age, disturbed, requests>>

\* InitTimeout: GetCurrentTime().
ArmRead ==
  /\ pc = "armRead"
  /\ time' = now
  /\ Goto("armStart")
  /\ UNCHANGED <<now, timer, flag, sum, age, disturbed, requests>>

\* InitTimeout: start_time, then timeout, which has this value already.
ArmStart ==
  /\ pc = "armStart"
  /\ start' = time
  /\ timeout' = Delay
  /\ Goto("armSum")
  /\ UNCHANGED <<now, crc, flag, time, sum, age, disturbed, requests>>

\* InitTimeout: the loads of start_time + timeout.
ArmSum ==
  /\ pc = "armSum"
  /\ sum' = T!Sum(start, timeout)
  /\ Goto("armCrc")
  /\ UNCHANGED <<now, timer, flag, time, age, disturbed, requests>>

\* InitTimeout: the store of crc.
ArmCrc ==
  /\ pc = "armCrc"
  /\ crc' = sum
  /\ Goto("waiting")
  /\ UNCHANGED <<now, start, timeout, flag, time, sum, age, disturbed, requests>>

\* Faulty variant of Waiting: the flag is dropped, not moved on.
WaitingDropped ==
  /\ pc = "waiting"
  /\ flag' = "none"
  /\ Goto("task")
  /\ UNCHANGED <<now, timer, time, sum, age, disturbed, requests>>

\* sysResetMcuFlag = MCU_RESET_IS_WAITING, over any request made meanwhile.
Waiting ==
  /\ pc = "waiting"
  /\ flag' = "waiting"
  /\ Goto("task")
  /\ UNCHANGED <<now, timer, time, sum, age, disturbed, requests>>

\* CheckTimeout: u32temp = start_time + timeout.
CheckSum ==
  /\ pc = "sum"
  /\ sum' = T!Sum(start, timeout)
  /\ Goto("compare")
  /\ UNCHANGED <<now, timer, flag, time, age, disturbed, requests>>

\* CheckTimeout: a checksum that does not match counts as expired.
CheckCrc ==
  /\ pc = "compare"
  /\ Goto(IF sum # crc THEN "reset" ELSE "time")
  /\ UNCHANGED <<now, timer, flag, time, sum, age, disturbed, requests>>

\* CheckTimeout: u32temp = GetCurrentTime(), kept to the end of the check.
CheckTime ==
  /\ pc = "time"
  /\ time' = now
  /\ Goto("load")
  /\ UNCHANGED <<now, timer, flag, sum, age, disturbed, requests>>

\* CheckTimeout: the loads of start_time + timeout, then the store of crc.
CheckLoad ==
  /\ pc = "load"
  /\ sum' = T!Sum(start, timeout)
  /\ Goto("store")
  /\ UNCHANGED <<now, timer, flag, time, age, disturbed, requests>>

CheckStore ==
  /\ pc = "store"
  /\ crc' = sum
  /\ Goto("elapsed")
  /\ UNCHANGED <<now, start, timeout, flag, time, sum, age, disturbed, requests>>

\* The time since start at time t, one less than there is past a wrap-around.
Since(t) == IF t >= start THEN t - start ELSE (Modulus - 1 - start) + t

\* Faulty variant of CheckElapsed: it expires a tick early.
CheckElapsedEarly ==
  /\ pc = "elapsed"
  /\ Goto(IF Since(time) + Interval >= timeout THEN "reset" ELSE "task")
  /\ UNCHANGED <<now, timer, flag, time, sum, age, disturbed, requests>>

CheckElapsed ==
  /\ pc = "elapsed"
  /\ Goto(IF Since(time) >= timeout THEN "reset" ELSE "task")
  /\ UNCHANGED <<now, timer, flag, time, sum, age, disturbed, requests>>

\* NVIC_SystemReset: the board starts again.
Restart ==
  /\ pc = "reset"
  /\ pc' = "task"
  /\ now' = 0
  /\ start' = 0 /\ timeout' = 0 /\ crc' = 0
  /\ flag' = "none"
  /\ time' = 0
  /\ sum' = 0
  /\ age' = 0
  /\ disturbed' = FALSE
  /\ requests' = 0

MainStep ==
  \/ Task \/ ArmRead \/ ArmStart \/ ArmSum \/ ArmCrc \/ Waiting
  \/ CheckSum \/ CheckCrc \/ CheckTime \/ CheckLoad \/ CheckStore
  \/ CheckElapsed \/ Restart

Next == Tick \/ Request \/ MainStep

Spec == Init /\ [][Next]_vars

\* The main loop never stops and the system tick keeps coming.
FairSpec == Spec /\ WF_vars(MainStep) /\ WF_vars(Tick)

-----------------------------------------------------------------------------
(* Properties.                                                             *)

\* Every variable keeps its range.
TypeOK ==
  /\ now \in T!Counter
  /\ start \in T!Counter
  /\ timeout \in {0, Delay}
  /\ crc \in T!Counter
  /\ flag \in {"none", "after", "waiting"}
  /\ pc \in {"task", "armRead", "armStart", "armSum", "armCrc", "waiting",
             "sum", "compare", "time", "load", "store", "elapsed", "reset"}
  /\ time \in T!Counter
  /\ sum \in T!Counter
  /\ age \in 0..Delay
  /\ disturbed \in BOOLEAN
  /\ requests \in 0..MaxRequests

\* The board restarts early, that is before the delay has passed since the
\* last rename, only if that rename came while the main loop was arming or
\* checking the timeout (system_config.c:188, 213; sys_tick.c:67-86), when
\* start, checksum and the time read no longer belong together, or between
\* the check's answer and the reset (system_config.c:213-215), too late to
\* put it off.  Without such a meeting a rename gets its whole second.
EarlyOnlyIfDisturbed == pc = "reset" => (age = Delay \/ disturbed)

\* A request is always followed by a restart, whatever it interrupts: no
\* interleaving of the handler's flag and the main loop's loses it.
RestartFollows == (requests > 0) ~> (pc = "reset")
=============================================================================
