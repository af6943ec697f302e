----------------------------- MODULE ConfigStore -----------------------------
(***************************************************************************)
(* How the configuration reaches flash (system_config.c, pstorage.c).      *)
(* Handlers change the copy of the configuration in RAM and set            *)
(* system_config_change; CFG_Save_Task, in the main loop, queues a clear   *)
(* and a store with the persistent-storage module; the SoftDevice performs *)
(* one flash operation at a time and reports it by an event, handled in an *)
(* interrupt.  A reset, asked for by a rename or a firmware-update request *)
(* or by a loss of power, may come at any moment.                          *)
(*                                                                         *)
(* The main loop is the process with a program counter.  Handlers exclude  *)
(* one another, so that each is one step, except that a handler copying a  *)
(* field into the configuration is two: the SoftDevice, which reads the    *)
(* source of a store when it programs the page, preempts handlers too.     *)
(*                                                                         *)
(* Abstracted: a field is one value, Torn while it is half copied or when  *)
(* it was programmed over another value; the smart-key code and its time   *)
(* are one field, whose Default is a time of 10 with any code; a page      *)
(* operation is not cut in the middle by a loss of power; timeouts expire  *)
(* at any time.                                                            *)
(***************************************************************************)
EXTENDS Integers, FiniteSets

CONSTANTS
  Values,           \* what the phone may set a field to
  OutOfRange,       \* smart keys whose time is below 10 or above 99
  Default,          \* what CFG_Load gives a field that it does not accept
  Torn,             \* a field half copied, or the mixture of two values
  Blank,            \* an erased page
  QueueSize,        \* PSTORAGE_CMD_QUEUE_SIZE (10)
  MaxTries,         \* SD_CMD_MAX_TRIES (3)
  EventsInEnqueue,  \* whether a flash event may interrupt cmd_queue_enqueue
  MaxInputs,        \* bound on changes and requests from outside
  MaxFailures       \* bound on flash operations that fail

ASSUME ConfigStoreAssumption ==
  /\ Default \notin Values \cup OutOfRange
  /\ Torn \notin Values \cup OutOfRange \cup {Default}
  /\ QueueSize \in Nat \ {0, 1}   \* a save queues two commands
  /\ MaxTries \in Nat \ {0}
  /\ EventsInEnqueue \in BOOLEAN
  /\ MaxInputs \in Nat
  /\ MaxFailures \in Nat

Fields == {"pin", "name", "key"}
Configs == [Fields -> Values \cup OutOfRange \cup {Default, Torn}]
Defaults == [f \in Fields |-> Default]

ASSUME BlankAssumption == Blank \notin Configs

VARIABLES
  cfg,       \* sysCfg
  change,    \* system_config_change
  reset,     \* sysResetMcuFlag: "none", "set" or "waiting"
  bootMode,  \* bootModeFlag is BOOT_MODE_ACTIVE
  copying,   \* the field a handler is copying and its value, or NoCopy
  flash,     \* the page of the configuration
  q,         \* pstorage: command queue and state machine
  op,        \* the SoftDevice's flash operation
  up,        \* CFG_Load has returned
  pc,        \* where the main loop stands
  job,       \* the command system_config_save is queueing
  index,     \* write_index, while it is computed and after
  loaded,    \* m_cmd_queue.count as count++ has read it
  inputs,    \* inputs taken so far
  failures   \* flash operations failed so far

mainVars == <<pc, job, index, loaded>>
vars == <<cfg, change, reset, bootMode, copying, flash, q, op, up, mainVars,
          inputs, failures>>

NoCopy == [field |-> "none", value |-> Default]

-----------------------------------------------------------------------------
(* The storage module: functions of its state s = [q, op], so that a chain  *)
(* of state changes within one call is one composition.                     *)

Slots == 0..(QueueSize - 1)

\* Faulty variant of After: the read pointer does not wrap.
AfterNoWrap(i) == i + 1

After(i) == (i + 1) % QueueSize

Empty ==
  [rp |-> 0, count |-> 0, cmd |-> [i \in Slots |-> "none"], state |-> "idle",
   tries |-> 0, busy |-> FALSE, written |-> FALSE]

\* sd_flash_page_erase, sd_flash_write: refused while an operation is running.
Request(s, o) ==
  IF s.op = "none" THEN [s EXCEPT !.op = o] ELSE [s EXCEPT !.q.busy = TRUE]

\* sm_state_change to a state whose entry asks for a flash operation.  What
\* follows the request of a store, m_num_of_bytes_written = p_cmd->size, is
\* left to the caller: an event cannot come in between in the handler of
\* another, but it can in the main program.
Enter(s, state) ==
  Request([s EXCEPT !.q.state = state], IF state = "erase" THEN "erase" ELSE "write")

\* cmd_process: start the command at rp; nothing for a free element.
Process(s) ==
  IF s.q.cmd[s.q.rp] = "none" THEN s
  ELSE Enter(s, IF s.q.cmd[s.q.rp] = "clear" THEN "erase" ELSE "store")

\* Faulty variant of End: the element is not freed.
EndKeepsElement(s) ==
  LET t == [s EXCEPT !.q = [rp    |-> After(s.q.rp),
                            count |-> s.q.count - 1,
                            cmd   |-> s.q.cmd,
                            state |-> "idle",
                            tries |-> 0,
                            busy  |-> s.q.busy,
                            written |-> FALSE]]
  IN  IF t.q.count # 0 THEN Process(t) ELSE t

\* command_end_procedure_run: free the element, go idle, start the next.
End(s) ==
  LET t == [s EXCEPT !.q = [rp    |-> After(s.q.rp),
                            count |-> s.q.count - 1,
                            cmd   |-> [s.q.cmd EXCEPT ![s.q.rp] = "none"],
                            state |-> "idle",
                            tries |-> 0,
                            busy  |-> s.q.busy,
                            written |-> FALSE]]
  IN  IF t.q.count # 0 THEN Process(t) ELSE t

\* Reissue the request of the present state.
Reissue(s) == Enter([s EXCEPT !.q.busy = FALSE], s.q.state)

\* flash_operation_success_run: one page, erased or written in one go, ends
\* the command; a store whose m_num_of_bytes_written is not yet set is taken
\* for unfinished and written once more.
OnSuccess(s) ==
  IF s.q.busy THEN Reissue(s)
  ELSE IF s.q.state = "store" /\ ~s.q.written THEN Enter(s, "store")
  ELSE End(s)

\* Faulty variant of OnFailure: no retry.
OnFailureNoRetry(s) ==
  IF s.q.busy THEN Reissue(s) ELSE [s EXCEPT !.q.state = "error"]

\* flash_operation_failure_run, reached when the request was not refused.
OnFailure(s) ==
  LET t == [s EXCEPT !.q.tries = s.q.tries + 1]
  IN  IF s.q.busy THEN Reissue(s)
      ELSE IF t.q.tries # MaxTries THEN Enter(t, t.q.state)
      ELSE [t EXCEPT !.q.state = "error"]

\* In a handler m_num_of_bytes_written is set as soon as a store is issued.
Counted(s) ==
  [q  |-> [s.q EXCEPT !.written = s.q.written \/ s.q.state = "store"],
   op |-> s.op]

Storage == [q |-> q, op |-> op]
Becomes(s) == q' = s.q /\ op' = s.op

-----------------------------------------------------------------------------
Init ==
  /\ cfg = Defaults
  /\ change = FALSE
  /\ reset = "none"
  /\ bootMode = FALSE
  /\ copying = NoCopy
  /\ flash = Blank
  /\ q = Empty
  /\ op = "none"
  /\ up = FALSE
  /\ pc = "load"
  /\ job = "clear"
  /\ index = 0
  /\ loaded = 0
  /\ inputs = 0
  /\ failures = 0

\* Everything in RAM is lost; the program starts again at CFG_Load.
Reboot ==
  /\ change' = FALSE
  /\ reset' = "none"
  /\ bootMode' = FALSE
  /\ copying' = NoCopy
  /\ q' = Empty
  /\ op' = "none"
  /\ up' = FALSE
  /\ pc' = "load"
  /\ job' = "clear"
  /\ index' = 0
  /\ loaded' = 0
  /\ UNCHANGED <<cfg, flash>>

-----------------------------------------------------------------------------
(* Handlers and the SoftDevice.                                            *)

Input ==
  /\ inputs < MaxInputs
  /\ inputs' = inputs + 1

Handling == copying # NoCopy

\* A handler starts to write field f.
StartCopy(f, v) ==
  /\ Input
  /\ up
  /\ ~Handling
  /\ cfg' = [cfg EXCEPT ![f] = Torn]
  /\ copying' = [field |-> f, value |-> v]
  /\ UNCHANGED <<change, reset, bootMode, flash, q, op, up, mainVars, failures>>

NameRequest == \E v \in Values : StartCopy("name", v)
PinRequest == \E v \in Values : StartCopy("pin", v)

\* WRITE_SMARTKEY: the time is taken as it comes, in range or not.
KeyRequest == \E v \in Values \cup OutOfRange : StartCopy("key", v)

\* Faulty variant of EndCopy: only a rename marks the configuration.
EndCopyUnmarked ==
  /\ Handling
  /\ cfg' = [cfg EXCEPT ![copying.field] = copying.value]
  /\ change' = (change \/ copying.field = "name")
  /\ reset' = IF copying.field = "name" THEN "set" ELSE reset
  /\ copying' = NoCopy
  /\ UNCHANGED <<bootMode, flash, q, op, up, mainVars, inputs, failures>>

\* The copy is complete: a PIN or a name is marked for saving, and a name
\* asks for a reset too.  The smart key is left to the next save.
EndCopy ==
  /\ Handling
  /\ cfg' = [cfg EXCEPT ![copying.field] = copying.value]
  /\ change' = (change \/ copying.field # "key")
  /\ reset' = IF copying.field = "name" THEN "set" ELSE reset
  /\ copying' = NoCopy
  /\ UNCHANGED <<bootMode, flash, q, op, up, mainVars, inputs, failures>>

\* A firmware-update request, from the phone or the hidden button sequence.
BootRequest ==
  /\ Input
  /\ up
  /\ ~Handling
  /\ bootMode' = TRUE
  /\ UNCHANGED <<cfg, change, reset, copying, flash, q, op, up, mainVars,
                 failures>>

PowerLoss == Input /\ Reboot /\ UNCHANGED failures

\* Programming only clears bits: over a page that is not erased, a field is
\* the mixture of both values.
Programmed(page) ==
  IF page = Blank THEN cfg
  ELSE [f \in Fields |-> IF page[f] = cfg[f] THEN cfg[f] ELSE Torn]

\* The SoftDevice performs the operation.  A store programs what the
\* configuration in RAM is now.
Perform ==
  /\ op \in {"erase", "write"}
  /\ flash' = IF op = "erase" THEN Blank ELSE Programmed(flash)
  /\ op' = "done"
  /\ UNCHANGED <<cfg, change, reset, bootMode, copying, q, up, mainVars, inputs,
                 failures>>

\* The SoftDevice finds no time slot for it.
Fail ==
  /\ failures < MaxFailures
  /\ failures' = failures + 1
  /\ op \in {"erase", "write"}
  /\ op' = "failed"
  /\ UNCHANGED <<cfg, change, reset, bootMode, copying, flash, q, up, mainVars,
                 inputs>>

InEnqueue ==
  pc \in {"enqFull", "enqRead", "enqRp", "enqCount", "enqWrite", "enqLoad",
          "enqStore", "enqKick", "enqWritten"}

\* pstorage_sys_event_handler, in the interrupt of the event.
FlashEvent ==
  /\ op \in {"done", "failed"}
  /\ ~Handling
  /\ InEnqueue => EventsInEnqueue
  /\ LET s == [Storage EXCEPT !.op = "none"]
     IN  Becomes(IF q.state \in {"idle", "error"} THEN s
                 ELSE Counted(IF op = "done" THEN OnSuccess(s) ELSE OnFailure(s)))
  /\ UNCHANGED <<cfg, change, reset, bootMode, copying, flash, up, mainVars,
                 inputs, failures>>

-----------------------------------------------------------------------------
(* The main program: CFG_Load, then the loop.  No step is taken while a     *)
(* handler runs.                                                            *)

At(l) == pc = l /\ ~Handling
Goto(l) == pc' = l

\* What CFG_Load makes of a page: the defaults if it is blank, a time of 10 if
\* the time is out of range.  The time of a torn key may be either's.
Accepted(key) ==
  IF key \in OutOfRange THEN {Default}
  ELSE IF key = Torn THEN {Torn, Default} ELSE {key}

Loaded(page) ==
  IF page = Blank THEN {Defaults}
  ELSE {[page EXCEPT !["key"] = k] : k \in Accepted(page["key"])}

\* Faulty variant of Load: what was put right is not saved.
LoadNoSave ==
  /\ At("load")
  /\ cfg' \in Loaded(flash)
  /\ Goto("loop")
  /\ job' = "clear"
  /\ up' = TRUE
  /\ UNCHANGED <<change, reset, bootMode, copying, flash, q, op, index, loaded,
                 inputs, failures>>

\* CFG_Load: a configuration that had to be put right is saved at once.
Load ==
  /\ At("load")
  /\ cfg' \in Loaded(flash)
  /\ Goto(IF cfg' = flash THEN "loop" ELSE "enqFull")
  /\ job' = "clear"
  /\ up' = (cfg' = flash)
  /\ UNCHANGED <<change, reset, bootMode, copying, flash, q, op, index, loaded,
                 inputs, failures>>

\* The reset into the boot loader waits for the buzzer, for any time.
LoopTop ==
  /\ At("loop")
  /\ UNCHANGED <<inputs, failures>>
  /\ \/ bootMode /\ Reboot
     \/ /\ Goto("saveTest")
        /\ UNCHANGED <<cfg, change, reset, bootMode, copying, flash, q, op, up,
                       job, index, loaded>>

\* CFG_Save_Task: if(system_config_change)
SaveTest ==
  /\ At("saveTest")
  /\ Goto(IF change THEN "countTest" ELSE "resetTask")
  /\ UNCHANGED <<cfg, change, reset, bootMode, copying, flash, q, op, up, job,
                 index, loaded, inputs, failures>>

\* Faulty variants of CountTest: one forgets the change when it cannot save,
\* the other does not look at the count.
CountTestForgets ==
  /\ At("countTest")
  /\ change' = (change /\ q.count = 0)
  /\ Goto(IF q.count # 0 THEN "resetTask" ELSE "changeClear")
  /\ UNCHANGED <<cfg, reset, bootMode, copying, flash, q, op, up, job, index,
                 loaded, inputs, failures>>

CountTestIgnored ==
  /\ At("countTest")
  /\ Goto("changeClear")
  /\ UNCHANGED <<cfg, change, reset, bootMode, copying, flash, q, op, up, job,
                 index, loaded, inputs, failures>>

\* pstorage_access_status_get: come back when nothing is pending.
CountTest ==
  /\ At("countTest")
  /\ Goto(IF q.count # 0 THEN "resetTask" ELSE "changeClear")
  /\ UNCHANGED <<cfg, change, reset, bootMode, copying, flash, q, op, up, job,
                 index, loaded, inputs, failures>>

\* system_config_change = false; system_config_save begins.
ChangeClear ==
  /\ At("changeClear")
  /\ change' = FALSE
  /\ job' = "clear"
  /\ Goto("enqFull")
  /\ UNCHANGED <<cfg, reset, bootMode, copying, flash, q, op, up, index, loaded,
                 inputs, failures>>

\* cmd_queue_enqueue: a full queue is an error, and APP_ERROR_CHECK resets.
EnqFull ==
  /\ At("enqFull")
  /\ UNCHANGED <<inputs, failures>>
  /\ \/ q.count = QueueSize /\ Reboot
     \/ /\ q.count # QueueSize
        /\ Goto("enqRead")
        /\ UNCHANGED <<cfg, change, reset, bootMode, copying, flash, q, op, up,
                       job, index, loaded>>

\* rp + count: two loads, in an order C leaves open.
EnqRead ==
  /\ At("enqRead")
  /\ \/ index' = q.rp /\ Goto("enqCount")
     \/ index' = q.count /\ Goto("enqRp")
  /\ UNCHANGED <<cfg, change, reset, bootMode, copying, flash, q, op, up, job,
                 loaded, inputs, failures>>

EnqIndex ==
  /\ At("enqCount") \/ At("enqRp")
  /\ index' = (index + (IF pc = "enqCount" THEN q.count ELSE q.rp)) % QueueSize
  /\ Goto("enqWrite")
  /\ UNCHANGED <<cfg, change, reset, bootMode, copying, flash, q, op, up, job,
                 loaded, inputs, failures>>

EnqWrite ==
  /\ At("enqWrite")
  /\ q' = [q EXCEPT !.cmd[index] = job]
  /\ Goto("enqLoad")
  /\ UNCHANGED <<cfg, change, reset, bootMode, copying, flash, op, up, job,
                 index, loaded, inputs, failures>>

\* m_cmd_queue.count++, a load and a store.
EnqLoad ==
  /\ At("enqLoad")
  /\ loaded' = q.count
  /\ Goto("enqStore")
  /\ UNCHANGED <<cfg, change, reset, bootMode, copying, flash, q, op, up, job,
                 index, inputs, failures>>

EnqStore ==
  /\ At("enqStore")
  /\ q' = [q EXCEPT !.count = loaded + 1]
  /\ Goto("enqKick")
  /\ UNCHANGED <<cfg, change, reset, bootMode, copying, flash, op, up, job,
                 index, loaded, inputs, failures>>

\* The store after the clear, and back to the caller after the store.
Return ==
  /\ job' = IF job = "clear" THEN "store" ELSE "clear"
  /\ Goto(IF job = "clear" THEN "enqFull" ELSE IF up THEN "resetTask" ELSE "loop")
  /\ up' = (up \/ job = "store")

\* Faulty variant of EnqKick: the command is started whatever the state.
EnqKickAlways ==
  /\ At("enqKick")
  /\ Becomes(Process(Storage))
  /\ Return
  /\ UNCHANGED <<cfg, change, reset, bootMode, copying, flash, index, loaded,
                 inputs, failures>>

\* if(m_state == STATE_IDLE) cmd_process(), as far as the flash request.
EnqKick ==
  /\ At("enqKick")
  /\ Becomes(IF q.state = "idle" THEN Process(Storage) ELSE Storage)
  /\ IF q.state = "idle" /\ q'.state = "store"
     THEN Goto("enqWritten") /\ UNCHANGED <<job, up>>
     ELSE Return
  /\ UNCHANGED <<cfg, change, reset, bootMode, copying, flash, index, loaded,
                 inputs, failures>>

\* m_num_of_bytes_written = p_cmd->size, after the request of a store.  The
\* element is the one just queued; if an event has freed it meanwhile, its
\* size is zero, unless the build kept it in a register.
EnqWritten ==
  /\ At("enqWritten")
  /\ \E size \in {TRUE, q.cmd[index] # "none"} : q' = [q EXCEPT !.written = size]
  /\ Return
  /\ UNCHANGED <<cfg, change, reset, bootMode, copying, flash, op, index, loaded,
                 inputs, failures>>

\* ResetMcuTask: first restart the second, then wait for it.
ResetMcuTask ==
  /\ At("resetTask")
  /\ UNCHANGED <<inputs, failures>>
  /\ \/ reset = "waiting" /\ Reboot
     \/ /\ reset' = IF reset = "none" THEN "none" ELSE "waiting"
        /\ Goto("pinReset")
        /\ UNCHANGED <<cfg, change, bootMode, copying, flash, q, op, up, job,
                       index, loaded>>

\* The three buttons held for ten seconds give the default PIN back.
PinReset ==
  /\ At("pinReset")
  /\ UNCHANGED <<change, reset, bootMode, copying, flash, q, op, up, job, index,
                 loaded, failures>>
  /\ \/ Goto("loop") /\ UNCHANGED <<cfg, inputs>>
     \/ Input /\ cfg' = [cfg EXCEPT !["pin"] = Default] /\ Goto("pinFlag")

PinFlag ==
  /\ At("pinFlag")
  /\ change' = TRUE
  /\ Goto("loop")
  /\ UNCHANGED <<cfg, reset, bootMode, copying, flash, q, op, up, job, index,
                 loaded, inputs, failures>>

Main ==
  \/ Load \/ LoopTop \/ SaveTest \/ CountTest \/ ChangeClear \/ EnqFull
  \/ EnqRead \/ EnqIndex \/ EnqWrite \/ EnqLoad \/ EnqStore \/ EnqKick
  \/ EnqWritten
  \/ ResetMcuTask \/ PinReset \/ PinFlag

Handlers ==
  \/ NameRequest \/ PinRequest \/ KeyRequest
  \/ EndCopy
  \/ BootRequest
  \/ FlashEvent

Flash == Perform \/ Fail

Next == Main \/ Handlers \/ Flash \/ PowerLoss

Spec == Init /\ [][Next]_vars

\* The main loop runs on (the watchdog sees to it), a handler that has begun
\* ends, and the SoftDevice performs or fails what it accepted and reports it.
FairSpec ==
  Spec /\ WF_vars(Main) /\ WF_vars(EndCopy) /\ WF_vars(Flash)
       /\ WF_vars(FlashEvent)

-----------------------------------------------------------------------------
(* Properties.                                                             *)

MainLabels ==
  {"load", "loop", "saveTest", "countTest", "changeClear", "enqFull",
   "enqRead", "enqRp", "enqCount", "enqWrite", "enqLoad", "enqStore",
   "enqKick", "enqWritten", "resetTask", "pinReset", "pinFlag"}

ConfigTypeOK ==
  /\ cfg \in Configs
  /\ flash \in Configs \cup {Blank}
  /\ change \in BOOLEAN
  /\ reset \in {"none", "set", "waiting"}
  /\ bootMode \in BOOLEAN
  /\ copying \in [field : Fields, value : Values \cup OutOfRange] \cup {NoCopy}
  /\ up \in BOOLEAN

Queues ==
  [rp : Slots, count : 0..QueueSize, cmd : [Slots -> {"none", "clear", "store"}],
   state : {"idle", "erase", "store", "error"}, tries : 0..MaxTries,
   busy : BOOLEAN, written : BOOLEAN]

QueueTypeOK == q \in Queues /\ op \in {"none", "erase", "write", "done", "failed"}

LoopTypeOK ==
  /\ pc \in MainLabels
  /\ job \in {"clear", "store"}
  /\ index \in 0..QueueSize
  /\ loaded \in 0..QueueSize
  /\ inputs \in 0..MaxInputs
  /\ failures \in 0..MaxFailures

\* Every variable stays in its range; in particular the read pointer and the
\* count stay within the queue (pstorage.c:250-261, 631-670).
TypeOK == ConfigTypeOK /\ QueueTypeOK /\ LoopTypeOK

Saving == InEnqueue \/ pc = "changeClear"

\* A PIN or a name is never forgotten: with no change marked, no handler in
\* the middle of a copy and nothing pending, flash holds those in use.  It
\* relies on CFG_Save_Task clearing the mark before it queues the save
\* (system_config.c:163-165), and on returning with it set while it cannot.
SavedWhenSettled ==
  (up /\ ~change /\ ~Handling /\ ~Saving /\ pc # "pinFlag" /\ q.count = 0) =>
    /\ flash # Blank
    /\ flash["pin"] = cfg["pin"]
    /\ flash["name"] = cfg["name"]

\* While no event comes inside cmd_queue_enqueue, the page is blank only while
\* the store of a save is being queued or the module is at work, unless it has
\* given up after the last retry: a reset finds the configuration unless it
\* cuts a save (system_config.c:63-77, pstorage.c:1089-1109).
BlankOnlyWhileSaving ==
  (flash = Blank /\ up) =>
    \/ InEnqueue /\ job = "store"
    \/ q.state \in {"erase", "store"}
    \/ q.state = "error"

\* The module never asks for a flash operation while one is running, so the
\* refusal path of flash_api_err_code_process is never needed.
OneFlashOperationAtATime == ~q.busy

\* The queue always has room for a save: CFG_Save_Task starts one only when
\* nothing is pending.
QueueHasRoom == pc = "enqFull" => q.count + (IF job = "clear" THEN 2 ELSE 1) <= QueueSize

\* "Number of storage operations pending with the module.  If 0, there are no
\* outstanding requests" (pstorage.h:286-287).
CountIsPending ==
  ~InEnqueue => q.count = Cardinality({i \in Slots : q.cmd[i] # "none"})

\* "memory provided for the data source that is to be written to flash cannot
\* be freed or reused by the application until this procedure is complete"
\* (pstorage.h:192-195).
SourceKeptUntilStored ==
  [][q.state = "store" /\ q'.state = "store" => cfg' = cfg]_vars

\* Once the inputs have stopped, the PIN and the name in use get to flash,
\* whatever resets, failures (fewer than the module retries) and changes
\* came before.
EventuallySaved ==
  []<>(/\ up
       /\ flash # Blank
       /\ flash["pin"] = cfg["pin"]
       /\ flash["name"] = cfg["name"])

-----------------------------------------------------------------------------
(* The abstract configuration: memory is lost between a restart and         *)
(* CFG_Load.                                                               *)

Memory == IF pc = "load" THEN Blank ELSE cfg

\* A PIN or a name is marked, being copied, or about to be marked.
Owed == change \/ copying.field \in {"pin", "name"} \/ pc = "pinFlag"

\* The erase of a save that has begun is still to come, or was given up.
EraseDue ==
  \/ InEnqueue /\ job = "clear"
  \/ q.state = "erase" /\ op # "done"
  \/ q.state = "error" /\ q.cmd[q.rp] = "clear"

\* The store was performed, but its event finds nothing counted as written.
AgainDue == q.state = "store" /\ flash # Blank /\ (op = "done" => ~q.written)

Due ==
  IF pc = "load" THEN "nothing"
  ELSE IF EraseDue THEN "erase"
  ELSE IF flash = Blank THEN "program"
  ELSE IF AgainDue THEN "again" ELSE "nothing"

Abstract == INSTANCE SavedConfig
  WITH memory <- Memory,
       page   <- flash,
       owed   <- Owed,
       due    <- Due

\* Whatever events, failures, retries and restarts do to the command queue,
\* the configuration is saved as SavedConfig says: no mark disappears without
\* a save that begins after the change, no save begins before the erase and
\* the store of the one before are performed, and the page is programmed when
\* it is erased and at most once more, with what is in use by then
\* (system_config.c:63-77, 98-168, pstorage.c:349-373, 1018-1043).
ImplementsSavedConfig == Abstract!Spec
=============================================================================
