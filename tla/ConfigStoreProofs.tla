-------------------------- MODULE ConfigStoreProofs --------------------------
(***************************************************************************)
(* Proofs about ConfigStore, for every set of values, every size of the    *)
(* command queue, every number of retries, with and without flash events   *)
(* in the middle of an enqueue.                                            *)
(*                                                                         *)
(* The invariant says which shapes the queue has at each point of the main *)
(* loop, and what flash holds in each.  The shapes include those an event  *)
(* in the middle of an enqueue leaves: a store where the module does not   *)
(* look for it, and a count with nothing behind it.                        *)
(***************************************************************************)
EXTENDS ConfigStore, FiniteSetTheorems, TLAPS

-----------------------------------------------------------------------------
(* Shapes of the queue r, with o the SoftDevice's operation.                *)

Idle(r, o) == r.state = "idle" /\ o = "none"

\* The command at rp is being performed, or has failed for the last time.
Performs(r, o, command, state, request) ==
  /\ r.cmd[r.rp] = command
  /\ \/ r.state = state /\ o \in {request, "done", "failed"} /\ r.tries < MaxTries
     \/ r.state = "error" /\ o = "none"

Clears(r, o) == Performs(r, o, "clear", "erase", "erase")
Stores(r, o) == Performs(r, o, "store", "store", "write")

FreeBut(r, S) == \A i \in Slots \ S : r.cmd[i] = "none"

Nothing(r, o) == Idle(r, o) /\ r.count = 0 /\ r.tries = 0 /\ FreeBut(r, {})

\* The clear is queued alone, or with its store behind it.
ClearAlone(r, o) == Clears(r, o) /\ FreeBut(r, {r.rp})
ClearFirst(r, o) ==
  Clears(r, o) /\ FreeBut(r, {r.rp, After(r.rp)}) /\ r.cmd[After(r.rp)] = "store"

\* The store is queued alone; where the module looks for it in the second.
StoreAlone(r, o) == Stores(r, o) /\ FreeBut(r, {r.rp})
StoreAt(r, o, i) ==
  Idle(r, o) /\ r.tries = 0 /\ FreeBut(r, {i}) /\ r.cmd[i] = "store"

-----------------------------------------------------------------------------
(* The queue at each point of the main loop.                                *)

Looking == pc \in {"enqFull", "enqRead", "enqRp", "enqCount", "enqWrite"}

\* While system_config_save queues the clear.
QueueingClear ==
  InEnqueue /\ job = "clear" =>
    /\ Looking => Nothing(q, op)
    /\ ~Looking => /\ Idle(q, op)
                   /\ q.tries = 0
                   /\ q.cmd[q.rp] = "clear"
                   /\ FreeBut(q, {q.rp})
                   /\ q.count = IF pc = "enqKick" THEN 1 ELSE 0
                   /\ pc = "enqStore" => loaded = 0
    /\ pc # "enqWritten"
    /\ pc = "enqCount" => index = q.rp
    /\ pc = "enqRp" => index = 0
    /\ pc = "enqWrite" => index = q.rp

\* While it queues the store: the clear is queued, or it has been performed.
QueueingStore ==
  InEnqueue /\ job = "store" =>
    /\ Looking => \/ Nothing(q, op)
                  \/ /\ ClearAlone(q, op)
                     /\ q.count = 1
                     /\ pc = "enqCount" => index = q.rp
                     /\ pc = "enqRp" => index = 1
                     /\ pc = "enqWrite" => index = After(q.rp)
    /\ pc = "enqLoad" => \/ /\ ClearFirst(q, op)
                            /\ q.count = 1
                            /\ index = After(q.rp)
                         \/ StoreAt(q, op, index) /\ q.count = 0
    /\ pc = "enqStore" => \/ /\ ClearFirst(q, op)
                             /\ q.count = 1
                             /\ loaded = 1
                             /\ index = After(q.rp)
                          \/ StoreAt(q, op, index) /\ q.count = 0 /\ loaded = 0
                          \/ /\ StoreAt(q, op, q.rp)
                             /\ q.count = 0
                             /\ loaded = 1
                             /\ index = q.rp
    /\ pc = "enqKick" => \/ ClearFirst(q, op) /\ q.count = 2
                         \/ StoreAlone(q, op) /\ q.count = 1
                         \/ StoreAt(q, op, index) /\ q.count = 1
                         \/ StoreAt(q, op, q.rp) /\ q.count = 2 /\ index = q.rp
                         \/ Nothing(q, op)
    /\ pc = "enqWritten" => \/ Nothing(q, op)
                            \/ /\ StoreAlone(q, op)
                               /\ q.count \in {1, 2}
                               /\ index = q.rp
                            \/ Idle(q, op) /\ q.tries = 0 /\ q.count = 1
    /\ pc \in {"enqWrite", "enqLoad", "enqStore", "enqKick"} => index \in Slots

\* Between two saves: nothing, the save, or a count with nothing behind it.
BetweenSaves ==
  ~InEnqueue =>
    /\ job = "clear"
    /\ \/ Nothing(q, op)
       \/ ClearFirst(q, op) /\ q.count = 2
       \/ StoreAlone(q, op) /\ q.count \in {1, 2}
       \/ Idle(q, op) /\ q.tries = 0 /\ q.count = 1
    /\ pc \in {"load", "changeClear"} => Nothing(q, op)

QueueInv == ~q.busy /\ QueueingClear /\ QueueingStore /\ BetweenSaves

-----------------------------------------------------------------------------
(* What flash holds.                                                        *)

\* The PIN and the name in flash are those in use, or the difference is
\* marked, or about to be marked.
Kept ==
  /\ flash # Blank
  /\ \A f \in {"pin", "name"} :
       \/ flash[f] = cfg[f]
       \/ change
       \/ copying.field = f
       \/ f = "pin" /\ pc = "pinFlag"

\* No store is still to come: it has been performed, or the queue is empty
\* outside a save.
Stored ==
  \/ q.state = "store" /\ op = "done"
  \/ q.state = "store" /\ flash # Blank
  \/ q.count = 0 /\ ~Saving /\ pc # "load"
  \/ q.count = 0 /\ pc \in {"enqKick", "enqWritten"}

\* The page is blank from the end of the erase to the store.
Erased ==
  \/ q.state = "erase" /\ op = "done"
  \/ /\ q.state = "idle" /\ InEnqueue /\ job = "store" /\ pc # "enqWritten"
     /\ ~(pc = "enqKick" /\ q.count = 0)

\* A store that has been performed once is performed at most once more.
Twice == q.state = "store" /\ op \in {"write", "failed"} /\ flash # Blank

FlashInv ==
  /\ Stored => Kept
  /\ Erased => flash = Blank
  /\ Twice => q.written
  /\ up => pc # "load"

ConfigInv == TypeOK /\ QueueInv /\ FlashInv

-----------------------------------------------------------------------------
(* The storage module's functions on these shapes.                          *)

LEMMA AfterNext ==
  ASSUME NEW i \in Slots
  PROVE  After(i) \in Slots /\ After(i) # i
<1>1. i + 1 \in 1..QueueSize /\ QueueSize \in Nat /\ QueueSize >= 2
  BY ConfigStoreAssumption DEF Slots
<1>2. CASE i + 1 = QueueSize
  BY <1>1, <1>2 DEF Slots, After
<1>3. CASE i + 1 # QueueSize
  <2>1. (i + 1) % QueueSize = i + 1
    BY <1>1, <1>3
  <2> QED
    BY <2>1, <1>1, <1>3 DEF Slots, After
<1> QED
  BY <1>2, <1>3

LEMMA EnterIssues ==
  ASSUME NEW r \in Queues, NEW state \in {"erase", "store"}
  PROVE  Enter([q |-> r, op |-> "none"], state) =
           [q  |-> [r EXCEPT !.state = state],
            op |-> IF state = "erase" THEN "erase" ELSE "write"]
BY DEF Enter, Request

LEMMA ProcessStarts ==
  ASSUME NEW r \in Queues
  PROVE  Process([q |-> r, op |-> "none"]) =
           IF r.cmd[r.rp] = "none" THEN [q |-> r, op |-> "none"]
           ELSE IF r.cmd[r.rp] = "clear"
           THEN [q |-> [r EXCEPT !.state = "erase"], op |-> "erase"]
           ELSE [q |-> [r EXCEPT !.state = "store"], op |-> "write"]
BY EnterIssues DEF Process

(* The queue once the command at rp is freed.                               *)
Freed(r) ==
  [rp |-> After(r.rp), count |-> r.count - 1,
   cmd |-> [r.cmd EXCEPT ![r.rp] = "none"], state |-> "idle", tries |-> 0,
   busy |-> r.busy, written |-> FALSE]

LEMMA FreedType ==
  ASSUME NEW r \in Queues, r.count # 0
  PROVE  Freed(r) \in Queues
<1>1. After(r.rp) \in Slots
  BY AfterNext DEF Queues
<1>2. r.count - 1 \in 0..QueueSize
  BY ConfigStoreAssumption DEF Queues
<1>3. 0 \in 0..MaxTries
  BY ConfigStoreAssumption
<1> QED
  BY <1>1, <1>2, <1>3 DEF Freed, Queues

LEMMA EndStartsNext ==
  ASSUME NEW r \in Queues
  PROVE  End([q |-> r, op |-> "none"]) =
           IF r.count - 1 # 0 THEN Process([q |-> Freed(r), op |-> "none"])
           ELSE [q |-> Freed(r), op |-> "none"]
<1> DEFINE s == [q |-> r, op |-> "none"]
<1>1. [s EXCEPT !.q = Freed(r)] = [q |-> Freed(r), op |-> "none"]
  OBVIOUS
<1>2. End(s) = LET t == [s EXCEPT !.q = Freed(r)]
               IN  IF t.q.count # 0 THEN Process(t) ELSE t
  BY Zenon DEF End, Freed
<1>3. Freed(r).count = r.count - 1
  BY DEF Freed
<1> QED
  BY <1>1, <1>2, <1>3

LEMMA FreedFields ==
  ASSUME NEW r \in Queues
  PROVE  /\ Freed(r).rp = After(r.rp)
         /\ Freed(r).count = r.count - 1
         /\ Freed(r).state = "idle"
         /\ Freed(r).tries = 0
         /\ Freed(r).busy = r.busy
         /\ After(r.rp) \in Slots
         /\ After(r.rp) # r.rp
         /\ r.rp \in Slots
         /\ Freed(r).cmd[r.rp] = "none"
         /\ \A i \in Slots \ {r.rp} : Freed(r).cmd[i] = r.cmd[i]
BY AfterNext DEF Freed, Queues

(* The end of the clear: alone, with its store counted, or with its store   *)
(* written and not yet counted.                                             *)
LEMMA ClearEnds ==
  ASSUME NEW r \in Queues, ~r.busy, NEW t,
         t = OnSuccess([q |-> r, op |-> "none"])
  PROVE  /\ ClearAlone(r, "done") /\ r.count = 1 =>
              t.q \in Queues /\ ~t.q.busy /\ Nothing(t.q, t.op)
         /\ ClearFirst(r, "done") /\ r.count = 1 =>
              /\ t.q \in Queues /\ ~t.q.busy
              /\ StoreAt(t.q, t.op, After(r.rp))
              /\ t.q.rp = After(r.rp)
              /\ t.q.count = 0
         /\ ClearFirst(r, "done") /\ r.count = 2 =>
              /\ t.q \in Queues /\ ~t.q.busy
              /\ StoreAlone(t.q, t.op)
              /\ t.q.count = 1
              /\ t.q.state = "store" /\ t.op = "write"
<1> DEFINE f == Freed(r)
<1> SUFFICES ASSUME ClearAlone(r, "done") \/ ClearFirst(r, "done")
             PROVE  /\ ClearAlone(r, "done") /\ r.count = 1 =>
                         t.q \in Queues /\ ~t.q.busy /\ Nothing(t.q, t.op)
                    /\ ClearFirst(r, "done") /\ r.count = 1 =>
                         /\ t.q \in Queues /\ ~t.q.busy
                         /\ StoreAt(t.q, t.op, After(r.rp))
                         /\ t.q.rp = After(r.rp)
                         /\ t.q.count = 0
                    /\ ClearFirst(r, "done") /\ r.count = 2 =>
                         /\ t.q \in Queues /\ ~t.q.busy
                         /\ StoreAlone(t.q, t.op)
                         /\ t.q.count = 1
                         /\ t.q.state = "store" /\ t.op = "write"
  OBVIOUS
<1>1. t = End([q |-> r, op |-> "none"])
  <2>1. r.state = "erase"
    BY DEF ClearAlone, ClearFirst, Clears, Performs
  <2> QED
    BY <2>1 DEF OnSuccess
<1>2. r.count \in 0..QueueSize /\ QueueSize \in Nat
  BY ConfigStoreAssumption DEF Queues
<1>3. CASE r.count = 1
  <2>1. t = [q |-> f, op |-> "none"]
    BY <1>1, <1>3, EndStartsNext
  <2>2. f \in Queues
    BY <1>3, FreedType
  <2>3. ClearAlone(r, "done") => FreeBut(f, {})
    BY FreedFields DEF ClearAlone, FreeBut
  <2>4. ClearFirst(r, "done") =>
          FreeBut(f, {After(r.rp)}) /\ f.cmd[After(r.rp)] = "store"
    BY FreedFields DEF ClearFirst, FreeBut
  <2>5. f.count = 0
    BY <1>3, FreedFields
  <2> HIDE DEF f
  <2> QED
    BY <1>3, <2>1, <2>2, <2>3, <2>4, <2>5, FreedFields
    DEF Nothing, StoreAt, Idle, f
<1>4. CASE r.count = 2 /\ ClearFirst(r, "done")
  <2>1. FreeBut(f, {f.rp}) /\ f.cmd[f.rp] = "store"
    BY <1>4, FreedFields DEF ClearFirst, FreeBut
  <2>2. f \in Queues
    BY <1>4, FreedType
  <2>3. t = Process([q |-> f, op |-> "none"])
    BY <1>1, <1>4, EndStartsNext
  <2>4. t = [q |-> [f EXCEPT !.state = "store"], op |-> "write"]
    BY <2>1, <2>2, <2>3, ProcessStarts
  <2>5. f.count = 1 /\ f.tries = 0 /\ f.busy = r.busy
    BY <1>4, FreedFields
  <2> HIDE DEF f
  <2>6. /\ t.q \in Queues
        /\ t.q.cmd = f.cmd /\ t.q.rp = f.rp /\ t.q.count = f.count
        /\ t.q.tries = f.tries /\ t.q.busy = f.busy
        /\ t.q.state = "store" /\ t.op = "write"
    BY <2>2, <2>4 DEF Queues
  <2>7. FreeBut(t.q, {t.q.rp}) /\ t.q.cmd[t.q.rp] = "store"
    BY <2>1, <2>6 DEF FreeBut
  <2>8. StoreAlone(t.q, t.op)
    BY <2>5, <2>6, <2>7, ConfigStoreAssumption DEF StoreAlone, Stores, Performs
  <2> QED
    BY <1>4, <2>5, <2>6, <2>8
<1> QED
  BY <1>2, <1>3, <1>4

(* The end of the store: nothing is left, or a count with nothing behind it. *)
LEMMA StoreEnds ==
  ASSUME NEW r \in Queues, ~r.busy, StoreAlone(r, "done"), r.written, NEW t,
         t = OnSuccess([q |-> r, op |-> "none"])
  PROVE  /\ r.count = 1 => t.q \in Queues /\ ~t.q.busy /\ Nothing(t.q, t.op)
         /\ r.count = 2 => /\ t.q \in Queues /\ ~t.q.busy
                           /\ Idle(t.q, t.op) /\ t.q.tries = 0 /\ t.q.count = 1
<1> DEFINE f == Freed(r)
<1>1. t = End([q |-> r, op |-> "none"])
  BY DEF OnSuccess
<1>2. FreeBut(f, {}) /\ f.cmd[f.rp] = "none"
  BY FreedFields DEF StoreAlone, FreeBut
<1>3. CASE r.count = 1
  <2>1. t = [q |-> f, op |-> "none"]
    BY <1>1, <1>3, EndStartsNext
  <2>2. f \in Queues
    BY <1>3, FreedType
  <2>3. f.count = 0
    BY <1>3, FreedFields
  <2> HIDE DEF f
  <2> QED
    BY <1>2, <1>3, <2>1, <2>2, <2>3, FreedFields DEF Nothing, Idle, f
<1>4. CASE r.count = 2
  <2>1. f \in Queues
    BY <1>4, FreedType
  <2>2. t = Process([q |-> f, op |-> "none"])
    BY <1>1, <1>4, EndStartsNext
  <2>3. t = [q |-> f, op |-> "none"]
    BY <1>2, <2>1, <2>2, ProcessStarts
  <2>4. f.count = 1
    BY <1>4, FreedFields
  <2> HIDE DEF f
  <2> QED
    BY <1>4, <2>1, <2>3, <2>4, FreedFields DEF Idle, f
<1> QED
  BY <1>3, <1>4

(* A store not counted as written is issued once more.                      *)
LEMMA StoreAgain ==
  ASSUME NEW r \in Queues, ~r.busy, StoreAlone(r, "done"), ~r.written, NEW t,
         t = OnSuccess([q |-> r, op |-> "none"])
  PROVE  /\ t.q = r
         /\ t.op = "write"
         /\ StoreAlone(t.q, t.op)
<1>1. r.state = "store"
  BY DEF StoreAlone, Stores, Performs
<1>2. t = Enter([q |-> r, op |-> "none"], "store")
  BY <1>1 DEF OnSuccess
<1>3. t = [q |-> [r EXCEPT !.state = "store"], op |-> "write"]
  BY <1>2, EnterIssues
<1>4. [r EXCEPT !.state = "store"] = r
  BY <1>1 DEF Queues
<1>5. t.q = r /\ t.op = "write"
  BY <1>3, <1>4
<1> QED
  BY <1>1, <1>5 DEF StoreAlone, Stores, Performs

(* What the handler sets after it leaves the rest as it is.                 *)
LEMMA CountedFields ==
  ASSUME NEW t, t.q \in Queues
  PROVE  /\ Counted(t).q \in Queues
         /\ Counted(t).op = t.op
         /\ Counted(t).q.rp = t.q.rp
         /\ Counted(t).q.cmd = t.q.cmd
         /\ Counted(t).q.count = t.q.count
         /\ Counted(t).q.state = t.q.state
         /\ Counted(t).q.tries = t.q.tries
         /\ Counted(t).q.busy = t.q.busy
         /\ t.q.state = "store" => Counted(t).q.written
<1> DEFINE r == t.q
           w == r.written \/ r.state = "store"
           u == [r EXCEPT !.written = w]
<1>1. Counted(t).q = u /\ Counted(t).op = t.op
  BY DEF Counted
<1>2. r \in Queues
  OBVIOUS
<1>3. w \in BOOLEAN /\ (r.state = "store" => w)
  OBVIOUS
<1> HIDE DEF r, w
<1>4. /\ u \in Queues /\ u.rp = r.rp /\ u.cmd = r.cmd /\ u.count = r.count
      /\ u.state = r.state /\ u.tries = r.tries /\ u.busy = r.busy
      /\ u.written = w
  BY <1>2, <1>3 DEF Queues
<1> HIDE DEF u
<1> QED
  BY <1>1, <1>3, <1>4, Zenon DEF r

(* The shapes do not depend on whether the store is counted as written.     *)
LEMMA SameShape ==
  ASSUME NEW r, NEW u, NEW o,
         u.rp = r.rp, u.cmd = r.cmd, u.count = r.count, u.state = r.state,
         u.tries = r.tries
  PROVE  /\ Idle(u, o) <=> Idle(r, o)
         /\ Nothing(u, o) <=> Nothing(r, o)
         /\ ClearFirst(u, o) <=> ClearFirst(r, o)
         /\ StoreAlone(u, o) <=> StoreAlone(r, o)
         /\ \A i : StoreAt(u, o, i) <=> StoreAt(r, o, i)
BY DEF Idle, Nothing, ClearFirst, StoreAlone, Clears, Stores, Performs, StoreAt,
       FreeBut

(* A failure: the command is tried again, or for the last time it is not.   *)
LEMMA CommandFails ==
  ASSUME NEW r \in Queues, ~r.busy, NEW t,
         t = OnFailure([q |-> r, op |-> "none"]),
         r.tries < MaxTries, r.state \in {"erase", "store"}
  PROVE  /\ t.q \in Queues
         /\ ~t.q.busy
         /\ t.q.rp = r.rp /\ t.q.cmd = r.cmd /\ t.q.count = r.count
         /\ \/ /\ t.q.state = r.state
               /\ t.q.tries < MaxTries
               /\ t.op = IF r.state = "erase" THEN "erase" ELSE "write"
            \/ t.q.state = "error" /\ t.op = "none"
<1> DEFINE u == [r EXCEPT !.tries = r.tries + 1]
<1>1. MaxTries \in Nat /\ r.tries \in 0..MaxTries /\ r.tries + 1 \in 0..MaxTries
  BY ConfigStoreAssumption DEF Queues
<1>2. /\ u \in Queues /\ u.tries = r.tries + 1 /\ u.state = r.state
      /\ u.rp = r.rp /\ u.cmd = r.cmd /\ u.count = r.count /\ u.busy = r.busy
  BY <1>1 DEF Queues
<1>3. t = IF u.tries # MaxTries THEN Enter([q |-> u, op |-> "none"], u.state)
          ELSE [q |-> [u EXCEPT !.state = "error"], op |-> "none"]
  <2> DEFINE s == [q |-> r, op |-> "none"]
             v == [q |-> u, op |-> "none"]
  <2>1. [s EXCEPT !.q.tries = s.q.tries + 1] = v
    OBVIOUS
  <2>2. [v EXCEPT !.q.state = "error"] = [q |-> [u EXCEPT !.state = "error"], op |-> "none"]
    OBVIOUS
  <2>3. s.q = r /\ v.q = u
    OBVIOUS
  <2> HIDE DEF s, v
  <2>4. OnFailure(s) = LET w == [s EXCEPT !.q.tries = s.q.tries + 1]
                       IN  IF s.q.busy THEN Reissue(s)
                           ELSE IF w.q.tries # MaxTries THEN Enter(w, w.q.state)
                           ELSE [w EXCEPT !.q.state = "error"]
    BY Zenon DEF OnFailure
  <2>5. OnFailure(s) = IF v.q.tries # MaxTries THEN Enter(v, v.q.state)
                       ELSE [v EXCEPT !.q.state = "error"]
    BY <2>1, <2>3, <2>4
  <2> QED
    BY <2>2, <2>3, <2>5 DEF s, v
<1> HIDE DEF u
<1>4. CASE u.tries # MaxTries
  <2>1. t = [q |-> [u EXCEPT !.state = u.state],
             op |-> IF u.state = "erase" THEN "erase" ELSE "write"]
    BY <1>2, <1>3, <1>4, EnterIssues
  <2>2. [u EXCEPT !.state = u.state] = u
    BY <1>2 DEF Queues
  <2> QED
    BY <1>1, <1>2, <1>4, <2>1, <2>2
<1>5. CASE u.tries = MaxTries
  <2>1. t = [q |-> [u EXCEPT !.state = "error"], op |-> "none"]
    BY <1>3, <1>5
  <2>2. t.q = [u EXCEPT !.state = "error"] /\ t.op = "none"
    BY <2>1
  <2>3. t.q \in Queues
    BY <1>2, <2>2 DEF Queues
  <2>4. /\ t.q.state = "error" /\ t.q.rp = u.rp /\ t.q.cmd = u.cmd
        /\ t.q.count = u.count /\ t.q.busy = u.busy
    BY <1>2, <2>2 DEF Queues
  <2> QED
    BY <1>2, <2>2, <2>3, <2>4
<1> QED
  BY <1>4, <1>5

-----------------------------------------------------------------------------
(* Every step keeps the queue's shapes.                                     *)

LEMMA QueueUnchanged ==
  ASSUME TypeOK, QueueInv, UNCHANGED <<q, op, mainVars>>
  PROVE  QueueTypeOK' /\ QueueInv'
BY DEF TypeOK, QueueTypeOK, QueueInv, QueueingClear, QueueingStore, BetweenSaves,
       InEnqueue, Looking, mainVars

LEMMA RebootQueue ==
  ASSUME Reboot
  PROVE  QueueTypeOK' /\ QueueInv'
<1>1. q' = Empty /\ op' = "none" /\ pc' = "load" /\ job' = "clear"
  BY DEF Reboot
<1>2. Empty \in Queues /\ 0 \in Slots
  BY ConfigStoreAssumption DEF Empty, Queues, Slots
<1>3. QueueTypeOK' /\ ~InEnqueue'
  BY <1>1, <1>2 DEF QueueTypeOK, InEnqueue
<1>4. Nothing(Empty, "none") /\ ~Empty.busy
  BY DEF Nothing, Idle, FreeBut, Empty
<1> HIDE DEF Nothing
<1>5. Nothing(q, op)'
  BY <1>1, <1>4
<1> QED
  BY <1>1, <1>3, <1>4, <1>5
  DEF QueueInv, QueueingClear, QueueingStore, BetweenSaves

(* The SoftDevice's part: whatever is running ends, and the queue stays.    *)
LEMMA FlashQueue ==
  ASSUME TypeOK, QueueInv, Flash
  PROVE  QueueTypeOK' /\ QueueInv'
<1>1. /\ op \in {"erase", "write"}
      /\ op' \in {"done", "failed"}
      /\ UNCHANGED <<q, mainVars>>
  BY DEF Flash, Perform, Fail
<1>2. ~Idle(q, op) /\ ~Nothing(q, op)
  BY <1>1 DEF Idle, Nothing
<1>3. \A i \in Slots \cup {index, q.rp} : ~StoreAt(q, op, i)
  BY <1>1 DEF Idle, StoreAt
<1>4. /\ Clears(q, op) => Clears(q, op')
      /\ Stores(q, op) => Stores(q, op')
  BY <1>1 DEF Clears, Stores, Performs
<1>5. /\ ClearAlone(q, op) => ClearAlone(q, op')
      /\ ClearFirst(q, op) => ClearFirst(q, op')
      /\ StoreAlone(q, op) => StoreAlone(q, op')
  BY <1>4 DEF ClearAlone, ClearFirst, StoreAlone
<1>6. QueueTypeOK'
  BY <1>1 DEF TypeOK, QueueTypeOK
<1>7. q' = q /\ pc' = pc /\ job' = job /\ index' = index /\ loaded' = loaded
  BY <1>1 DEF mainVars
<1>8. QueueingClear'
  BY <1>2, <1>7 DEF QueueInv, QueueingClear, InEnqueue, Looking
<1>9. BetweenSaves'
  BY <1>2, <1>5, <1>7 DEF QueueInv, BetweenSaves, InEnqueue
<1>10. QueueingStore'
  BY <1>2, <1>3, <1>5, <1>7 DEF QueueInv, QueueingStore, InEnqueue, Looking
<1> QED
  BY <1>6, <1>7, <1>8, <1>9, <1>10 DEF QueueInv

(* What is queued while an operation is under way or reported.              *)
LEMMA WhenRunning ==
  ASSUME TypeOK, QueueInv, op # "none"
  PROVE  /\ \/ ClearAlone(q, op) /\ q.count = 1
            \/ ClearFirst(q, op) /\ q.count \in {1, 2}
            \/ StoreAlone(q, op) /\ q.count \in {1, 2}
         /\ InEnqueue => job = "store"
<1>1. ~Idle(q, op) /\ ~Nothing(q, op) /\ \A i : ~StoreAt(q, op, i)
  BY DEF Idle, Nothing, StoreAt
<1>2. InEnqueue => job = "store"
  BY <1>1 DEF QueueInv, QueueingClear, TypeOK, LoopTypeOK
<1>3. CASE ~InEnqueue
  BY <1>1, <1>2, <1>3 DEF QueueInv, BetweenSaves
<1>4. CASE InEnqueue
  BY <1>1, <1>2, <1>4 DEF QueueInv, QueueingStore, InEnqueue, Looking
<1> QED
  BY <1>3, <1>4

LEMMA Performed ==
  ASSUME TypeOK, QueueInv, op # "none"
  PROVE  /\ q.state \in {"erase", "store"}
         /\ q.tries < MaxTries
         /\ ClearAlone(q, op) \/ ClearFirst(q, op) => q.state = "erase"
         /\ StoreAlone(q, op) => q.state = "store"
         /\ op = "erase" => q.state = "erase"
         /\ op = "write" => q.state = "store"
BY WhenRunning DEF ClearAlone, ClearFirst, StoreAlone, Clears, Stores, Performs

(* The command is tried again, or given up: the queue stays as it is.       *)
LEMMA FailedEvent ==
  ASSUME TypeOK, QueueInv, FlashEvent, op = "failed"
  PROVE  /\ UNCHANGED <<pc, job, index, loaded>>
         /\ q' \in Queues /\ ~q'.busy
         /\ q'.rp = q.rp /\ q'.cmd = q.cmd /\ q'.count = q.count
         /\ \/ /\ q'.state = q.state
               /\ q'.tries < MaxTries
               /\ op' = IF q.state = "erase" THEN "erase" ELSE "write"
            \/ q'.state = "error" /\ op' = "none"
         /\ q'.state = "store" => q'.written
<1>1. q \in Queues /\ ~q.busy
  BY DEF TypeOK, QueueTypeOK, QueueInv
<1> DEFINE t == OnFailure([q |-> q, op |-> "none"])
<1>2. /\ q' = Counted(t).q /\ op' = Counted(t).op
      /\ pc' = pc /\ job' = job /\ index' = index /\ loaded' = loaded
  <2>1. q.state \notin {"idle", "error"}
    BY Performed
  <2>2. [Storage EXCEPT !.op = "none"] = [q |-> q, op |-> "none"]
    BY DEF Storage
  <2> QED
    BY <2>1, <2>2 DEF FlashEvent, Becomes, mainVars
<1>3. /\ t.q \in Queues /\ ~t.q.busy
      /\ t.q.rp = q.rp /\ t.q.cmd = q.cmd /\ t.q.count = q.count
      /\ \/ /\ t.q.state = q.state
            /\ t.q.tries < MaxTries
            /\ t.op = IF q.state = "erase" THEN "erase" ELSE "write"
         \/ t.q.state = "error" /\ t.op = "none"
  BY <1>1, Performed, CommandFails
<1> HIDE DEF t
<1>4. /\ Counted(t).q \in Queues /\ Counted(t).op = t.op
      /\ Counted(t).q.rp = t.q.rp /\ Counted(t).q.cmd = t.q.cmd
      /\ Counted(t).q.count = t.q.count /\ Counted(t).q.state = t.q.state
      /\ Counted(t).q.tries = t.q.tries /\ Counted(t).q.busy = t.q.busy
      /\ t.q.state = "store" => Counted(t).q.written
  BY <1>3, CountedFields
<1> QED
  BY <1>2, <1>3, <1>4

LEMMA FailedEventQueue ==
  ASSUME TypeOK, QueueInv, FlashEvent, op = "failed"
  PROVE  QueueTypeOK' /\ QueueInv'
<1>2. pc' = pc /\ job' = job /\ index' = index /\ loaded' = loaded
  BY FailedEvent
<1>3. /\ q' \in Queues /\ ~q'.busy
      /\ q'.rp = q.rp /\ q'.cmd = q.cmd /\ q'.count = q.count
      /\ \/ /\ q'.state = q.state
            /\ q'.tries < MaxTries
            /\ op' = IF q.state = "erase" THEN "erase" ELSE "write"
         \/ q'.state = "error" /\ op' = "none"
  BY FailedEvent
<1>4. /\ Clears(q, op) => Clears(q', op')
      /\ Stores(q, op) => Stores(q', op')
  <2>1. op # "none"
    OBVIOUS
  <2> QED
    BY <1>3, <2>1 DEF Clears, Stores, Performs
<1>5. /\ ClearAlone(q, op) => ClearAlone(q', op')
      /\ ClearFirst(q, op) => ClearFirst(q', op')
      /\ StoreAlone(q, op) => StoreAlone(q', op')
  BY <1>3, <1>4 DEF ClearAlone, ClearFirst, StoreAlone, FreeBut
<1>6. ~Idle(q, op) /\ ~Nothing(q, op) /\ \A i : ~StoreAt(q, op, i)
  BY DEF Idle, Nothing, StoreAt
<1>7. InEnqueue => job = "store"
  BY WhenRunning
<1>8. QueueTypeOK'
  BY <1>3 DEF QueueTypeOK
<1>9. QueueingClear'
  BY <1>2, <1>7 DEF QueueingClear, InEnqueue
<1>10. BetweenSaves'
  BY <1>2, <1>3, <1>5, <1>6 DEF QueueInv, BetweenSaves, InEnqueue
<1>11. QueueingStore'
  BY <1>2, <1>3, <1>5, <1>6 DEF QueueInv, QueueingStore, InEnqueue, Looking
<1> QED
  BY <1>3, <1>8, <1>9, <1>10, <1>11 DEF QueueInv

(* The command is performed: the next one starts, if the module sees it.    *)
LEMMA DoneEvent ==
  ASSUME TypeOK, QueueInv, FlashEvent, op = "done"
  PROVE  /\ UNCHANGED <<pc, job, index, loaded>>
         /\ ClearAlone(q, op) /\ q.count = 1 =>
              q' \in Queues /\ ~q'.busy /\ Nothing(q', op')
         /\ ClearFirst(q, op) /\ q.count = 1 =>
              /\ q' \in Queues /\ ~q'.busy
              /\ StoreAt(q', op', After(q.rp))
              /\ q'.rp = After(q.rp)
              /\ q'.count = 0
         /\ ClearFirst(q, op) /\ q.count = 2 =>
              /\ q' \in Queues /\ ~q'.busy
              /\ StoreAlone(q', op')
              /\ q'.count = 1
              /\ q'.state = "store" /\ op' = "write"
         /\ StoreAlone(q, op) /\ q.written /\ q.count = 1 =>
              q' \in Queues /\ ~q'.busy /\ Nothing(q', op')
         /\ StoreAlone(q, op) /\ q.written /\ q.count = 2 =>
              /\ q' \in Queues /\ ~q'.busy
              /\ Idle(q', op') /\ q'.tries = 0 /\ q'.count = 1
         /\ StoreAlone(q, op) /\ ~q.written =>
              /\ q' \in Queues /\ ~q'.busy
              /\ StoreAlone(q', op')
              /\ q'.rp = q.rp /\ q'.count = q.count
              /\ q'.state = "store" /\ op' = "write"
         /\ q'.state = "store" => q'.written
<1>1. q \in Queues /\ ~q.busy /\ After(q.rp) \in Slots
  BY AfterNext DEF TypeOK, QueueTypeOK, QueueInv, Queues
<1> DEFINE t == OnSuccess([q |-> q, op |-> "none"])
<1>2. /\ q' = Counted(t).q /\ op' = Counted(t).op
      /\ pc' = pc /\ job' = job /\ index' = index /\ loaded' = loaded
  <2>1. q.state \notin {"idle", "error"}
    BY Performed
  <2>2. [Storage EXCEPT !.op = "none"] = [q |-> q, op |-> "none"]
    BY DEF Storage
  <2> QED
    BY <2>1, <2>2 DEF FlashEvent, Becomes, mainVars
<1>3. ClearAlone(q, op) /\ q.count = 1 =>
        t.q \in Queues /\ ~t.q.busy /\ Nothing(t.q, t.op)
  BY <1>1, ClearEnds
<1>4. ClearFirst(q, op) /\ q.count = 1 =>
        /\ t.q \in Queues /\ ~t.q.busy
        /\ StoreAt(t.q, t.op, After(q.rp))
        /\ t.q.rp = After(q.rp)
        /\ t.q.count = 0
  BY <1>1, ClearEnds
<1>5. ClearFirst(q, op) /\ q.count = 2 =>
        /\ t.q \in Queues /\ ~t.q.busy
        /\ StoreAlone(t.q, t.op)
        /\ t.q.count = 1
        /\ t.q.state = "store" /\ t.op = "write"
  BY <1>1, ClearEnds
<1>6. StoreAlone(q, op) /\ q.written /\ q.count = 1 =>
        t.q \in Queues /\ ~t.q.busy /\ Nothing(t.q, t.op)
  BY <1>1, StoreEnds
<1>7. StoreAlone(q, op) /\ q.written /\ q.count = 2 =>
        /\ t.q \in Queues /\ ~t.q.busy
        /\ Idle(t.q, t.op) /\ t.q.tries = 0 /\ t.q.count = 1
  BY <1>1, StoreEnds
<1>8. StoreAlone(q, op) /\ ~q.written =>
        /\ t.q \in Queues /\ ~t.q.busy
        /\ StoreAlone(t.q, t.op)
        /\ t.q.rp = q.rp /\ t.q.count = q.count
        /\ t.q.state = "store" /\ t.op = "write"
  <2> SUFFICES ASSUME StoreAlone(q, op), ~q.written
               PROVE  /\ t.q \in Queues /\ ~t.q.busy
                      /\ StoreAlone(t.q, t.op)
                      /\ t.q.rp = q.rp /\ t.q.count = q.count
                      /\ t.q.state = "store" /\ t.op = "write"
    OBVIOUS
  <2>1. t.q = q /\ t.op = "write" /\ StoreAlone(t.q, t.op)
    BY <1>1, StoreAgain
  <2>2. q.state = "store"
    BY Performed
  <2> QED
    BY <1>1, <2>1, <2>2
<1> HIDE DEF t
<1>9. t.q \in Queues
  BY <1>3, <1>4, <1>5, <1>6, <1>7, <1>8, WhenRunning
<1>10. /\ q'.rp = t.q.rp /\ q'.cmd = t.q.cmd
       /\ q'.count = t.q.count /\ q'.state = t.q.state
       /\ q'.tries = t.q.tries /\ q'.busy = t.q.busy
       /\ q' \in Queues /\ op' = t.op
       /\ t.q.state = "store" => q'.written
  BY <1>2, <1>9, CountedFields
<1>11. /\ Idle(q', op') <=> Idle(t.q, t.op)
       /\ Nothing(q', op') <=> Nothing(t.q, t.op)
       /\ StoreAlone(q', op') <=> StoreAlone(t.q, t.op)
       /\ \A i : StoreAt(q', op', i) <=> StoreAt(t.q, t.op, i)
  BY <1>10, SameShape
<1> QED
  BY <1>2, <1>3, <1>4, <1>5, <1>6, <1>7, <1>8, <1>10, <1>11

LEMMA DoneEventQueue ==
  ASSUME TypeOK, QueueInv, FlashEvent, op = "done"
  PROVE  QueueTypeOK' /\ QueueInv'
<1>1. q \in Queues /\ ~q.busy /\ After(q.rp) \in Slots
  BY AfterNext DEF TypeOK, QueueTypeOK, QueueInv, Queues
<1>2. pc' = pc /\ job' = job /\ index' = index /\ loaded' = loaded
  BY DoneEvent
<1>3. ClearAlone(q, op) /\ q.count = 1 =>
        q' \in Queues /\ ~q'.busy /\ Nothing(q', op')
  BY DoneEvent
<1>4. ClearFirst(q, op) /\ q.count = 1 =>
        /\ q' \in Queues /\ ~q'.busy
        /\ StoreAt(q', op', After(q.rp))
        /\ q'.rp = After(q.rp)
        /\ q'.count = 0
  BY DoneEvent
<1>5. ClearFirst(q, op) /\ q.count = 2 =>
        /\ q' \in Queues /\ ~q'.busy
        /\ StoreAlone(q', op')
        /\ q'.count = 1
  BY DoneEvent
<1>6. StoreAlone(q, op) /\ q.count = 1 =>
        /\ q' \in Queues /\ ~q'.busy
        /\ \/ Nothing(q', op')
           \/ StoreAlone(q', op') /\ q'.count = 1 /\ q'.rp = q.rp
  BY <1>1, DoneEvent
<1>7. StoreAlone(q, op) /\ q.count = 2 =>
        /\ q' \in Queues /\ ~q'.busy
        /\ \/ Idle(q', op') /\ q'.tries = 0 /\ q'.count = 1
           \/ StoreAlone(q', op') /\ q'.count = 2 /\ q'.rp = q.rp
  BY <1>1, DoneEvent
<1>8. ~Idle(q, op) /\ ~Nothing(q, op) /\ \A i : ~StoreAt(q, op, i)
  BY DEF Idle, Nothing, StoreAt
<1>9. InEnqueue => job = "store"
  BY WhenRunning
<1>10. q' \in Queues /\ ~q'.busy
  BY <1>3, <1>4, <1>5, <1>6, <1>7, WhenRunning
<1>11. op' \in {"none", "erase", "write", "done", "failed"}
  BY <1>3, <1>4, <1>5, <1>6, <1>7, WhenRunning
  DEF Nothing, StoreAt, Idle, StoreAlone, Stores, Performs
<1>12. QueueingClear'
  BY <1>2, <1>9 DEF QueueingClear, InEnqueue
<1>13. BetweenSaves'
  <2>1. ASSUME ~InEnqueue
        PROVE  /\ job = "clear" /\ pc \notin {"load", "changeClear"}
               /\ \/ ClearFirst(q, op) /\ q.count = 2
                  \/ StoreAlone(q, op) /\ q.count \in {1, 2}
    BY <1>8, <2>1 DEF QueueInv, BetweenSaves
  <2> QED
    BY <1>2, <1>5, <1>6, <1>7, <2>1 DEF BetweenSaves, InEnqueue
<1>14. QueueingStore'
  <2>1. CASE Looking
    <3>1. job = "store" => ClearAlone(q, op) /\ q.count = 1
      BY <1>8, <2>1 DEF QueueInv, QueueingStore, Looking, InEnqueue
    <3>2. job = "store" => Nothing(q', op')
      BY <1>3, <3>1
    <3>3. pc = "enqWrite" /\ job = "store" => index \in Slots
      BY <2>1 DEF QueueInv, QueueingStore, Looking, InEnqueue
    <3> QED
      BY <1>2, <2>1, <3>2, <3>3 DEF QueueingStore, Looking, InEnqueue
  <2>2. CASE pc = "enqLoad"
    <3>1. job = "store" => /\ ClearFirst(q, op)
                           /\ q.count = 1
                           /\ index = After(q.rp)
      BY <1>8, <2>2 DEF QueueInv, QueueingStore, InEnqueue
    <3>2. job = "store" => /\ StoreAt(q', op', index) /\ q'.count = 0
                           /\ index \in Slots
      BY <1>1, <1>4, <3>1
    <3> QED
      BY <1>2, <2>2, <3>2 DEF QueueingStore, Looking, InEnqueue
  <2>3. CASE pc = "enqStore"
    <3>1. job = "store" => /\ ClearFirst(q, op) /\ q.count = 1 /\ loaded = 1
                           /\ index = After(q.rp)
      BY <1>8, <2>3 DEF QueueInv, QueueingStore, InEnqueue
    <3>2. job = "store" => index \in Slots
      BY <2>3 DEF QueueInv, QueueingStore, InEnqueue
    <3>3. job = "store" => /\ StoreAt(q', op', q'.rp) /\ q'.count = 0
                           /\ index = q'.rp
      BY <1>4, <3>1
    <3> QED
      BY <1>2, <2>3, <3>1, <3>2, <3>3 DEF QueueingStore, Looking, InEnqueue
  <2>4. CASE pc = "enqKick"
    <3>1. job = "store" => \/ ClearFirst(q, op) /\ q.count = 2
                           \/ StoreAlone(q, op) /\ q.count = 1
      BY <1>8, <2>4 DEF QueueInv, QueueingStore, InEnqueue
    <3>2. job = "store" => index \in Slots
      BY <2>4 DEF QueueInv, QueueingStore, InEnqueue
    <3>3. job = "store" => \/ StoreAlone(q', op') /\ q'.count = 1
                           \/ Nothing(q', op')
      BY <1>5, <1>6, <3>1
    <3> QED
      BY <1>2, <2>4, <3>2, <3>3 DEF QueueingStore, Looking, InEnqueue
  <2>5. CASE pc = "enqWritten"
    <3>1. job = "store" => /\ StoreAlone(q, op) /\ q.count \in {1, 2}
                           /\ index = q.rp
      BY <1>8, <2>5 DEF QueueInv, QueueingStore, InEnqueue
    <3>2. job = "store" =>
            \/ Nothing(q', op')
            \/ StoreAlone(q', op') /\ q'.count \in {1, 2} /\ index = q'.rp
            \/ Idle(q', op') /\ q'.tries = 0 /\ q'.count = 1
      BY <1>6, <1>7, <3>1
    <3> QED
      BY <1>2, <2>5, <3>2 DEF QueueingStore, Looking, InEnqueue
  <2> QED
    BY <1>2, <2>1, <2>2, <2>3, <2>4, <2>5 DEF QueueingStore, Looking, InEnqueue
<1> QED
  BY <1>10, <1>11, <1>12, <1>13, <1>14 DEF QueueInv, QueueTypeOK

(* The steps of the main loop outside an enqueue.                           *)
LEMMA LoopQueue ==
  ASSUME TypeOK, QueueInv,
         \/ Load \/ LoopTop \/ SaveTest \/ CountTest \/ ChangeClear
         \/ ResetMcuTask \/ PinReset \/ PinFlag
  PROVE  QueueTypeOK' /\ QueueInv'
<1>1. ASSUME Reboot PROVE QueueTypeOK' /\ QueueInv'
  BY <1>1, RebootQueue
<1>2. ASSUME UNCHANGED <<q, op>> PROVE QueueTypeOK' /\ ~q'.busy
  BY <1>2 DEF TypeOK, QueueTypeOK, QueueInv
<1> USE DEF At, Goto
<1>3. CASE Load
  <2>1. /\ q' = q /\ op' = op /\ job' = "clear" /\ pc' \in {"enqFull", "loop"}
        /\ Nothing(q, op)
    BY <1>3 DEF Load, QueueInv, BetweenSaves, InEnqueue
  <2> QED
    BY <1>2, <2>1
    DEF QueueInv, QueueingClear, QueueingStore, BetweenSaves, InEnqueue, Looking
<1>4. CASE ChangeClear
  <2>1. /\ q' = q /\ op' = op /\ job' = "clear" /\ pc' = "enqFull"
        /\ Nothing(q, op)
    BY <1>4 DEF ChangeClear, QueueInv, BetweenSaves, InEnqueue
  <2> QED
    BY <1>2, <2>1
    DEF QueueInv, QueueingClear, QueueingStore, BetweenSaves, InEnqueue, Looking
<1>5. CASE CountTest
  <2>1. /\ q' = q /\ op' = op /\ job' = job
        /\ pc' = IF q.count # 0 THEN "resetTask" ELSE "changeClear"
        /\ pc = "countTest"
    BY <1>5 DEF CountTest
  <2>2. q.count = 0 => Nothing(q, op)
    BY <2>1 DEF QueueInv, BetweenSaves, InEnqueue
  <2> QED
    BY <1>2, <2>1, <2>2
    DEF QueueInv, QueueingClear, QueueingStore, BetweenSaves, InEnqueue
<1>6. CASE \/ LoopTop /\ ~Reboot
           \/ ResetMcuTask /\ ~Reboot
           \/ SaveTest \/ PinReset \/ PinFlag
  <2>1. /\ q' = q /\ op' = op /\ job' = job
        /\ pc \in {"loop", "saveTest", "resetTask", "pinReset", "pinFlag"}
        /\ pc' \in {"saveTest", "countTest", "resetTask", "pinReset", "pinFlag", "loop"}
    BY <1>6 DEF LoopTop, SaveTest, ResetMcuTask, PinReset, PinFlag
  <2> QED
    BY <1>2, <2>1
    DEF QueueInv, QueueingClear, QueueingStore, BetweenSaves, InEnqueue
<1> QED
  BY <1>1, <1>3, <1>4, <1>5, <1>6

(* cmd_queue_enqueue up to the write: the index is the first free element,  *)
(* unless the clear ends in between.                                        *)
LEMMA LookQueue ==
  ASSUME TypeOK, QueueInv, EnqFull \/ EnqRead \/ EnqIndex
  PROVE  QueueTypeOK' /\ QueueInv'
<1>1. ASSUME Reboot PROVE QueueTypeOK' /\ QueueInv'
  BY <1>1, RebootQueue
<1>2. ASSUME UNCHANGED <<q, op>> PROVE QueueTypeOK' /\ ~q'.busy
  BY <1>2 DEF TypeOK, QueueTypeOK, QueueInv
<1> USE DEF At, Goto
<1>3. CASE EnqFull /\ ~Reboot
  <2>1. q' = q /\ op' = op /\ job' = job /\ pc' = "enqRead" /\ pc = "enqFull"
    BY <1>3 DEF EnqFull
  <2> QED
    BY <1>2, <2>1
    DEF QueueInv, QueueingClear, QueueingStore, BetweenSaves, InEnqueue, Looking
<1>4. CASE EnqRead
  <2>1. /\ q' = q /\ op' = op /\ job' = job /\ pc = "enqRead"
        /\ \/ index' = q.rp /\ pc' = "enqCount"
           \/ index' = q.count /\ pc' = "enqRp"
    BY <1>4 DEF EnqRead
  <2> QED
    BY <1>2, <2>1
    DEF QueueInv, QueueingClear, QueueingStore, BetweenSaves, InEnqueue, Looking,
        Nothing
<1>5. CASE EnqIndex
  <2>1. /\ q' = q /\ op' = op /\ job' = job /\ pc \in {"enqCount", "enqRp"}
        /\ index' = (index + (IF pc = "enqCount" THEN q.count ELSE q.rp)) % QueueSize
        /\ pc' = "enqWrite"
    BY <1>5 DEF EnqIndex
  <2>2. index \in Nat /\ q.rp \in 0..(QueueSize - 1) /\ q.count \in Nat
        /\ QueueSize \in Nat \ {0, 1}
    BY ConfigStoreAssumption
    DEF TypeOK, QueueTypeOK, LoopTypeOK, Queues, Slots
  <2>3. index' \in Slots
    BY <2>1, <2>2 DEF Slots
  <2>4. q.rp % QueueSize = q.rp
    BY <2>2
  <2>5. job = "clear" => Nothing(q, op) /\ index' = q.rp
    BY <2>1, <2>2, <2>4
    DEF QueueInv, QueueingClear, InEnqueue, Looking, Nothing
  <2>6. job = "store" => \/ Nothing(q, op)
                         \/ /\ ClearAlone(q, op)
                            /\ q.count = 1
                            /\ index' = After(q.rp)
    BY <2>1, <2>2 DEF QueueInv, QueueingStore, InEnqueue, Looking, After
  <2> QED
    BY <1>2, <2>1, <2>3, <2>5, <2>6
    DEF QueueInv, QueueingClear, QueueingStore, BetweenSaves, InEnqueue, Looking
<1> QED
  BY <1>1, <1>3, <1>4, <1>5

(* cmd_queue_enqueue from the write to the count.                           *)
LEMMA WriteQueue ==
  ASSUME TypeOK, QueueInv, EnqWrite
  PROVE  QueueTypeOK' /\ QueueInv'
<1>1. /\ q \in Queues /\ ~q.busy /\ op' = op /\ job' = job /\ index' = index
      /\ loaded' = loaded /\ pc = "enqWrite" /\ pc' = "enqLoad"
      /\ q' = [q EXCEPT !.cmd[index] = job]
      /\ job \in {"clear", "store"}
  BY DEF EnqWrite, At, Goto, TypeOK, QueueTypeOK, LoopTypeOK, QueueInv
<1>2. index \in Slots
  BY <1>1 DEF QueueInv, QueueingClear, QueueingStore, InEnqueue, Looking, Queues
<1>3. /\ q' \in Queues
      /\ q'.rp = q.rp /\ q'.count = q.count /\ q'.state = q.state
      /\ q'.tries = q.tries /\ q'.busy = q.busy
      /\ q'.cmd = [q.cmd EXCEPT ![index] = job]
  BY <1>1, <1>2 DEF Queues
<1>4. /\ q'.cmd[index] = job
      /\ \A i \in Slots \ {index} : q'.cmd[i] = q.cmd[i]
  BY <1>1, <1>2, <1>3 DEF Queues
<1>5. QueueTypeOK'
  BY <1>1, <1>3 DEF TypeOK, QueueTypeOK
<1>6. job = "clear" => /\ Idle(q', op') /\ q'.tries = 0 /\ q'.count = 0
                       /\ q'.cmd[q'.rp] = "clear" /\ FreeBut(q', {q'.rp})
  BY <1>1, <1>3, <1>4
  DEF QueueInv, QueueingClear, InEnqueue, Looking, Nothing, Idle, FreeBut
<1>7. ASSUME job = "store"
      PROVE  \/ ClearFirst(q', op') /\ q'.count = 1 /\ index = After(q'.rp)
             \/ StoreAt(q', op', index) /\ q'.count = 0
  <2>1. CASE Nothing(q, op)
    BY <1>1, <1>2, <1>3, <1>4, <1>7, <2>1 DEF Nothing, StoreAt, Idle, FreeBut
  <2>2. CASE ClearAlone(q, op) /\ q.count = 1 /\ index = After(q.rp)
    <3>1. q.rp \in Slots \ {index}
      BY <1>1, <2>2, AfterNext DEF Queues
    <3>2. Clears(q', op')
      BY <1>1, <1>3, <1>4, <2>2, <3>1 DEF ClearAlone, Clears, Performs
    <3> QED
      BY <1>3, <1>4, <1>7, <2>2, <3>2 DEF ClearFirst, ClearAlone, FreeBut
  <2> QED
    BY <1>1, <1>7, <2>1, <2>2 DEF QueueInv, QueueingStore, InEnqueue, Looking
<1> QED
  BY <1>1, <1>2, <1>3, <1>5, <1>6, <1>7
  DEF QueueInv, QueueingClear, QueueingStore, BetweenSaves, InEnqueue, Looking

LEMMA CountQueue ==
  ASSUME TypeOK, QueueInv, EnqLoad \/ EnqStore
  PROVE  QueueTypeOK' /\ QueueInv'
<1>1. CASE EnqLoad
  <2>1. /\ q' = q /\ op' = op /\ job' = job /\ index' = index
        /\ loaded' = q.count /\ pc = "enqLoad" /\ pc' = "enqStore"
    BY <1>1 DEF EnqLoad, At, Goto
  <2>2. QueueTypeOK'
    BY <2>1 DEF TypeOK, QueueTypeOK
  <2> QED
    BY <2>1, <2>2
    DEF QueueInv, QueueingClear, QueueingStore, BetweenSaves, InEnqueue, Looking
<1>2. CASE EnqStore
  <2>1. /\ q \in Queues /\ op' = op /\ job' = job /\ index' = index
        /\ pc = "enqStore" /\ pc' = "enqKick"
        /\ q' = [q EXCEPT !.count = loaded + 1]
        /\ job \in {"clear", "store"}
    BY <1>2 DEF EnqStore, At, Goto, TypeOK, QueueTypeOK, LoopTypeOK
  <2>2. /\ job = "clear" => loaded = 0
        /\ job = "store" => loaded \in {0, 1}
    BY <2>1 DEF QueueInv, QueueingClear, QueueingStore, InEnqueue, Looking
  <2>3. loaded + 1 \in 0..QueueSize
    BY <2>1, <2>2, ConfigStoreAssumption
  <2>4. /\ q' \in Queues
        /\ q'.rp = q.rp /\ q'.count = loaded + 1 /\ q'.state = q.state
        /\ q'.tries = q.tries /\ q'.busy = q.busy /\ q'.cmd = q.cmd
    BY <2>1, <2>3 DEF Queues
  <2>5. QueueTypeOK' /\ ~q'.busy
    BY <2>1, <2>4 DEF TypeOK, QueueTypeOK, QueueInv
  <2>6. /\ Idle(q, op) => Idle(q', op')
        /\ \A S : FreeBut(q, S) => FreeBut(q', S)
    BY <2>1, <2>4 DEF Idle, FreeBut
  <2>7. /\ ClearFirst(q, op) => ClearFirst(q', op')
        /\ \A i : StoreAt(q, op, i) => StoreAt(q', op', i)
    BY <2>1, <2>4, <2>6 DEF ClearFirst, Clears, Performs, StoreAt
  <2>8. job = "clear" => /\ Idle(q', op') /\ q'.tries = 0 /\ q'.count = 1
                         /\ q'.cmd[q'.rp] = "clear" /\ FreeBut(q', {q'.rp})
    BY <2>1, <2>2, <2>4, <2>6 DEF QueueInv, QueueingClear, InEnqueue, Looking
  <2>9. job = "store" => /\ \/ ClearFirst(q', op') /\ q'.count = 2
                            \/ StoreAt(q', op', index) /\ q'.count = 1
                            \/ /\ StoreAt(q', op', q'.rp) /\ q'.count = 2
                               /\ index = q'.rp
                         /\ index \in Slots
    BY <2>1, <2>4, <2>7 DEF QueueInv, QueueingStore, InEnqueue, Looking
  <2> QED
    BY <2>1, <2>5, <2>8, <2>9
    DEF QueueInv, QueueingClear, QueueingStore, BetweenSaves, InEnqueue, Looking
<1> QED
  BY <1>1, <1>2

LEMMA KickStarts ==
  ASSUME q \in Queues, EnqKick, Idle(q, op)
  PROVE  IF q.cmd[q.rp] = "none" THEN q' = q /\ op' = op
         ELSE IF q.cmd[q.rp] = "clear"
         THEN q' = [q EXCEPT !.state = "erase"] /\ op' = "erase"
         ELSE q' = [q EXCEPT !.state = "store"] /\ op' = "write"
<1> DEFINE t == Process([q |-> q, op |-> "none"])
<1>1. Storage = [q |-> q, op |-> "none"]
  BY DEF Storage, Idle
<1>2. q' = t.q /\ op' = t.op
  BY <1>1 DEF EnqKick, Becomes, Idle
<1>3. t = IF q.cmd[q.rp] = "none" THEN [q |-> q, op |-> "none"]
          ELSE IF q.cmd[q.rp] = "clear"
          THEN [q |-> [q EXCEPT !.state = "erase"], op |-> "erase"]
          ELSE [q |-> [q EXCEPT !.state = "store"], op |-> "write"]
  BY ProcessStarts
<1> HIDE DEF t
<1> QED
  BY <1>2, <1>3 DEF Idle

(* The end of cmd_queue_enqueue: the command starts if the module is idle   *)
(* and the command is where the module looks.                               *)
LEMMA KickQueue ==
  ASSUME TypeOK, QueueInv, EnqKick
  PROVE  QueueTypeOK' /\ QueueInv'
<1>1. /\ q \in Queues /\ ~q.busy /\ pc = "enqKick" /\ q.rp \in Slots
      /\ index' = index
      /\ job \in {"clear", "store"}
      /\ IF q.state = "idle" /\ q'.state = "store"
         THEN pc' = "enqWritten" /\ job' = job
         ELSE /\ job' = IF job = "clear" THEN "store" ELSE "clear"
              /\ pc' \in {"enqFull", "resetTask", "loop"}
              /\ pc' = "enqFull" <=> job = "clear"
  BY DEF EnqKick, Return, At, Goto, TypeOK, QueueTypeOK, LoopTypeOK, QueueInv, Queues
<1>2. q.state # "idle" => q' = q /\ op' = op
  BY DEF EnqKick, Becomes, Storage
<1>3. ASSUME Idle(q, op), q.cmd[q.rp] = "none"
      PROVE  q' = q /\ op' = op
  BY <1>1, <1>3, KickStarts
<1>4. ASSUME Idle(q, op), q.cmd[q.rp] # "none"
      PROVE  IF q.cmd[q.rp] = "clear"
             THEN q' = [q EXCEPT !.state = "erase"] /\ op' = "erase"
             ELSE q' = [q EXCEPT !.state = "store"] /\ op' = "write"
  BY <1>1, <1>4, KickStarts
<1>5. 0 < MaxTries
  BY ConfigStoreAssumption
<1>6. CASE job = "clear"
  <2>1. /\ Idle(q, op) /\ q.tries = 0 /\ q.cmd[q.rp] = "clear"
        /\ FreeBut(q, {q.rp}) /\ q.count = 1
    BY <1>1, <1>6 DEF QueueInv, QueueingClear, InEnqueue, Looking
  <2>2. q' = [q EXCEPT !.state = "erase"] /\ op' = "erase"
    BY <1>4, <2>1
  <2>3. /\ q' \in Queues /\ ~q'.busy
        /\ q'.rp = q.rp /\ q'.count = q.count /\ q'.state = "erase"
        /\ q'.tries = q.tries /\ q'.cmd = q.cmd
    BY <1>1, <2>2 DEF Queues
  <2>4. ClearAlone(q', op') /\ q'.count = 1
    BY <1>5, <2>1, <2>2, <2>3 DEF ClearAlone, Clears, Performs, FreeBut
  <2>5. pc' = "enqFull" /\ job' = "store"
    BY <1>1, <1>6, <2>3
  <2> QED
    BY <1>1, <2>2, <2>3, <2>4, <2>5
    DEF QueueTypeOK, QueueInv, QueueingClear, QueueingStore, BetweenSaves,
        InEnqueue, Looking
<1>7. CASE job = "store"
  <2>1. /\ \/ ClearFirst(q, op) /\ q.count = 2
           \/ StoreAlone(q, op) /\ q.count = 1
           \/ StoreAt(q, op, index) /\ q.count = 1
           \/ StoreAt(q, op, q.rp) /\ q.count = 2 /\ index = q.rp
           \/ Nothing(q, op)
        /\ index \in Slots
    BY <1>1, <1>7 DEF QueueInv, QueueingStore, InEnqueue, Looking
  <2> DEFINE Result == /\ q' \in Queues /\ ~q'.busy
                       /\ op' \in {"none", "erase", "write", "done", "failed"}
                       /\ \/ Nothing(q', op')
                          \/ ClearFirst(q', op') /\ q'.count = 2
                          \/ /\ StoreAlone(q', op') /\ q'.count \in {1, 2}
                             /\ pc' = "enqWritten" => index = q'.rp
                          \/ Idle(q', op') /\ q'.tries = 0 /\ q'.count = 1
                       /\ pc' = "enqWritten" => ~ClearFirst(q', op')
  <2> SUFFICES Result
    <3>1. CASE pc' = "enqWritten"
      <4>1. job' = "store" /\ index \in Slots
        BY <1>1, <1>7, <2>1, <3>1
      <4> QED
        BY <1>1, <3>1, <4>1
        DEF QueueTypeOK, QueueInv, QueueingClear, QueueingStore, BetweenSaves,
            InEnqueue, Looking
    <3>2. CASE pc' # "enqWritten"
      <4>1. job' = "clear" /\ pc' \in {"resetTask", "loop"}
        BY <1>1, <1>7, <3>2
      <4> QED
        BY <1>1, <4>1
        DEF QueueTypeOK, QueueInv, QueueingClear, QueueingStore, BetweenSaves,
            InEnqueue, Looking
    <3> QED
      BY <3>1, <3>2
  <2> USE DEF Result
  <2>7. CASE q.state # "idle"
    <3>1. q' = q /\ op' = op /\ pc' # "enqWritten"
      BY <1>1, <1>2, <2>7
    <3>2. ~StoreAt(q, op, index) /\ ~StoreAt(q, op, q.rp) /\ ~Nothing(q, op)
      BY <2>7 DEF StoreAt, Nothing, Idle
    <3>3. /\ \/ ClearFirst(q', op') /\ q'.count = 2
             \/ StoreAlone(q', op') /\ q'.count = 1
          /\ q' \in Queues /\ ~q'.busy
      BY <1>1, <2>1, <3>1, <3>2
    <3>4. op' \in {"none", "erase", "write", "done", "failed"}
      BY <3>1 DEF TypeOK, QueueTypeOK
    <3> QED
      BY <3>1, <3>3, <3>4
  <2>2. CASE ClearFirst(q, op) /\ q.count = 2
    BY <2>2, <2>7 DEF ClearFirst, Clears, Performs
  <2>3. CASE StoreAlone(q, op) /\ q.count = 1
    BY <2>3, <2>7 DEF StoreAlone, Stores, Performs
  <2>4. CASE Nothing(q, op)
    <3>1. Idle(q, op) /\ q.cmd[q.rp] = "none"
      BY <1>1, <2>4 DEF Nothing, FreeBut
    <3>2. q' = q /\ op' = op /\ op = "none" /\ q.state = "idle"
      BY <1>3, <3>1 DEF Idle
    <3>3. pc' # "enqWritten"
      BY <1>1, <3>2
    <3> QED
      BY <1>1, <2>4, <3>2, <3>3
  <2>5. CASE StoreAt(q, op, q.rp) /\ q.count \in {1, 2} /\ index = q.rp
    <3>1. q' = [q EXCEPT !.state = "store"] /\ op' = "write"
      BY <1>4, <2>5 DEF StoreAt
    <3>2. /\ q' \in Queues /\ ~q'.busy
          /\ q'.rp = q.rp /\ q'.count = q.count /\ q'.state = "store"
          /\ q'.tries = q.tries /\ q'.cmd = q.cmd
      BY <1>1, <3>1 DEF Queues
    <3>3. StoreAlone(q', op')
      BY <1>5, <2>5, <3>1, <3>2 DEF StoreAt, StoreAlone, Stores, Performs, FreeBut
    <3>4. ~ClearFirst(q', op')
      BY <3>2 DEF ClearFirst, Clears, Performs
    <3> QED
      BY <2>5, <3>1, <3>2, <3>3, <3>4
  <2>6. CASE StoreAt(q, op, index) /\ q.count = 1 /\ index # q.rp
    <3>1. Idle(q, op) /\ q.cmd[q.rp] = "none" /\ q.tries = 0
      BY <1>1, <2>6 DEF StoreAt, FreeBut
    <3>2. q' = q /\ op' = op /\ op = "none" /\ q.state = "idle"
      BY <1>3, <3>1 DEF Idle
    <3>3. pc' # "enqWritten"
      BY <1>1, <3>2
    <3> QED
      BY <1>1, <2>6, <3>1, <3>2, <3>3
  <2> QED
    BY <2>1, <2>2, <2>3, <2>4, <2>5, <2>6
<1> QED
  BY <1>1, <1>6, <1>7

(* The count of the bytes written, which the shapes do not depend on.       *)
LEMMA WrittenQueue ==
  ASSUME TypeOK, QueueInv, EnqWritten
  PROVE  /\ QueueTypeOK' /\ QueueInv'
         /\ op' = op /\ q'.state = q.state /\ q'.count = q.count
         /\ q'.rp = q.rp /\ q'.cmd = q.cmd
         /\ pc = "enqWritten" /\ job = "store" /\ job' = "clear"
         /\ pc' \in {"resetTask", "loop"}
         /\ q.state = "store" => q'.written
<1>1. /\ q \in Queues /\ ~q.busy /\ pc = "enqWritten" /\ op' = op
      /\ job' = IF job = "clear" THEN "store" ELSE "clear"
      /\ job \in {"clear", "store"}
      /\ job = "store" => pc' \in {"resetTask", "loop"}
  BY DEF EnqWritten, Return, At, Goto, TypeOK, QueueTypeOK, LoopTypeOK, QueueInv
<1>2. job = "store"
  BY <1>1 DEF QueueInv, QueueingClear, InEnqueue, Looking
<1>3. PICK w \in {TRUE, q.cmd[index] # "none"} : q' = [q EXCEPT !.written = w]
  BY DEF EnqWritten
<1>4. w \in BOOLEAN
  BY <1>3
<1>5. /\ q' \in Queues /\ q'.rp = q.rp /\ q'.cmd = q.cmd /\ q'.count = q.count
      /\ q'.state = q.state /\ q'.tries = q.tries /\ q'.busy = q.busy
      /\ q'.written = w
  <2>1. q' = [q EXCEPT !.written = w]
    BY <1>3
  <2> HIDE <1>3
  <2> QED
    BY <1>1, <1>4, <2>1 DEF Queues
<1>6. \/ Nothing(q, op)
      \/ StoreAlone(q, op) /\ q.count \in {1, 2} /\ index = q.rp
      \/ Idle(q, op) /\ q.tries = 0 /\ q.count = 1
  BY <1>1, <1>2 DEF QueueInv, QueueingStore, InEnqueue
<1>7. q.state = "store" => w
  <2>1. q.state = "store" => q.cmd[index] = "store"
    BY <1>6 DEF Nothing, Idle, StoreAlone, Stores, Performs
  <2> QED
    BY <1>3, <2>1
<1>8. \/ Nothing(q', op')
      \/ StoreAlone(q', op') /\ q'.count \in {1, 2}
      \/ Idle(q', op') /\ q'.tries = 0 /\ q'.count = 1
  <2>1. /\ Idle(q', op) <=> Idle(q, op)
        /\ Nothing(q', op) <=> Nothing(q, op)
        /\ StoreAlone(q', op) <=> StoreAlone(q, op)
    BY <1>5, SameShape
  <2> QED
    BY <1>1, <1>5, <1>6, <2>1
<1>9. pc' \in {"resetTask", "loop"} /\ job' = "clear"
  BY <1>1, <1>2
<1>10. QueueTypeOK'
  BY <1>1, <1>5 DEF TypeOK, QueueTypeOK
<1>11. QueueInv'
  BY <1>1, <1>5, <1>8, <1>9
  DEF QueueInv, QueueingClear, QueueingStore, BetweenSaves, InEnqueue
<1> QED
  BY <1>1, <1>2, <1>5, <1>7, <1>9, <1>10, <1>11

\* A request that writes a field starts to copy it.
Requests == NameRequest \/ PinRequest \/ KeyRequest

LEMMA RequestCopies ==
  ASSUME Requests
  PROVE  \E f \in Fields, v \in Values \cup OutOfRange : StartCopy(f, v)
BY DEF Requests, NameRequest, PinRequest, KeyRequest, Fields

LEMMA QueueStep ==
  ASSUME TypeOK, QueueInv, [Next]_vars
  PROVE  QueueTypeOK' /\ QueueInv'
<1>1. CASE Main
  BY <1>1, LoopQueue, LookQueue, WriteQueue, CountQueue, KickQueue, WrittenQueue DEF Main
<1>2. CASE \/ \E f \in Fields, v \in Values \cup OutOfRange : StartCopy(f, v)
           \/ EndCopy
           \/ BootRequest
           \/ UNCHANGED vars
  <2>1. UNCHANGED <<q, op, mainVars>>
    BY <1>2 DEF StartCopy, EndCopy, BootRequest, vars, mainVars
  <2> QED
    BY <2>1, QueueUnchanged
<1>3. CASE FlashEvent
  BY <1>3, FailedEventQueue, DoneEventQueue DEF FlashEvent
<1>4. CASE Flash
  BY <1>4, FlashQueue
<1>5. CASE PowerLoss
  BY <1>5, RebootQueue DEF PowerLoss
<1> QED
  BY <1>1, <1>2, <1>3, <1>4, <1>5, RequestCopies DEF Next, Handlers, Requests

-----------------------------------------------------------------------------
(* The other variables keep their ranges.                                   *)

LEMMA LoadedType ==
  ASSUME flash \in Configs \cup {Blank}
  PROVE  /\ \A c \in Loaded(flash) : c \in Configs
         /\ flash = Blank => Loaded(flash) = {Defaults}
<1>1. Defaults \in Configs
  BY DEF Defaults, Configs
<1>2. CASE flash = Blank
  BY <1>1, <1>2 DEF Loaded
<1>3. CASE flash # Blank
  <2>1. flash \in Configs
    BY <1>3
  <2>2. flash["key"] \in Values \cup OutOfRange \cup {Default, Torn}
    BY <2>1 DEF Configs, Fields
  <2>3. Accepted(flash["key"]) \subseteq Values \cup OutOfRange \cup {Default, Torn}
    BY <2>2 DEF Accepted
  <2>4. \A k \in Accepted(flash["key"]) : [flash EXCEPT !["key"] = k] \in Configs
    BY <2>1, <2>3 DEF Configs
  <2> QED
    BY <1>3, <2>4 DEF Loaded
<1> QED
  BY <1>2, <1>3

LEMMA ConfigTypeStep ==
  ASSUME TypeOK, [Next]_vars
  PROVE  ConfigTypeOK'
<1> USE DEF TypeOK, ConfigTypeOK
<1>1. Defaults \in Configs
  BY DEF Defaults, Configs
<1>2. \A f \in Fields : \A v \in Values \cup OutOfRange \cup {Default, Torn} :
        [cfg EXCEPT ![f] = v] \in Configs
  BY DEF Configs
<1>3. ASSUME Reboot PROVE ConfigTypeOK'
  BY <1>3 DEF Reboot
<1>4. CASE Load
  <2>1. cfg' \in Configs
    BY <1>4, LoadedType DEF Load
  <2>2. up' \in BOOLEAN
    BY <1>4, Zenon DEF Load
  <2> QED
    BY <1>4, <2>1, <2>2 DEF Load
<1>5. CASE \/ LoopTop \/ SaveTest \/ CountTest \/ ChangeClear \/ EnqFull
           \/ EnqRead \/ EnqIndex \/ EnqWrite \/ EnqLoad \/ EnqStore
           \/ ResetMcuTask \/ PinFlag
  BY <1>3, <1>5 DEF LoopTop, SaveTest, CountTest, ChangeClear, EnqFull, EnqRead,
                    EnqIndex, EnqWrite, EnqLoad, EnqStore, ResetMcuTask, PinFlag
<1>6. CASE EnqKick
  <2>1. UNCHANGED <<cfg, change, reset, bootMode, copying, flash>>
    BY <1>6 DEF EnqKick
  <2>2. up' \in BOOLEAN
    <3>1. up' = up \/ up' = (up \/ job = "store")
      BY <1>6, Zenon DEF EnqKick, Return
    <3> QED
      BY <3>1
  <2> QED
    BY <2>1, <2>2
<1>14. CASE EnqWritten
  <2>1. UNCHANGED <<cfg, change, reset, bootMode, copying, flash>>
    BY <1>14 DEF EnqWritten
  <2>2. up' \in BOOLEAN
    BY <1>14, Zenon DEF EnqWritten, Return
  <2> QED
    BY <2>1, <2>2
<1>7. CASE PinReset
  BY <1>2, <1>7 DEF PinReset, Fields
<1>8. ASSUME NEW f \in Fields, NEW v \in Values \cup OutOfRange, StartCopy(f, v)
      PROVE  ConfigTypeOK'
  BY <1>2, <1>8 DEF StartCopy
<1>9. CASE EndCopy
  <2>1. copying.field \in Fields /\ copying.value \in Values \cup OutOfRange
    BY <1>9 DEF EndCopy, Handling
  <2>2. cfg' \in Configs
    BY <1>2, <1>9, <2>1 DEF EndCopy
  <2>3. change' \in BOOLEAN
    BY <1>9, Zenon DEF EndCopy
  <2> QED
    BY <1>9, <2>2, <2>3 DEF EndCopy
<1>10. CASE BootRequest \/ FlashEvent \/ Fail
  BY <1>10 DEF BootRequest, FlashEvent, Fail
<1>11. CASE Perform
  <2>1. Programmed(flash) \in Configs
    <3>1. cfg \in Configs
      OBVIOUS
    <3>2. [f \in Fields |-> IF flash[f] = cfg[f] THEN cfg[f] ELSE Torn] \in Configs
      BY <3>1 DEF Configs
    <3> QED
      BY <3>1, <3>2 DEF Programmed
  <2> QED
    BY <1>11, <2>1 DEF Perform
<1>12. CASE PowerLoss
  BY <1>3, <1>12 DEF PowerLoss
<1>13. CASE UNCHANGED vars
  BY <1>13 DEF vars
<1> QED
  BY <1>4, <1>5, <1>6, <1>7, <1>8, <1>9, <1>10, <1>11, <1>12, <1>13, <1>14,
     RequestCopies
  DEF Next, Main, Handlers, Flash, Requests

LEMMA LoopTypeStep ==
  ASSUME TypeOK, QueueInv, [Next]_vars
  PROVE  LoopTypeOK'
<1> USE ConfigStoreAssumption DEF TypeOK, LoopTypeOK, MainLabels, At, Goto, mainVars
<1>1. ASSUME Reboot
      PROVE  /\ pc' \in MainLabels /\ job' \in {"clear", "store"}
             /\ index' \in 0..QueueSize /\ loaded' \in 0..QueueSize
  BY <1>1 DEF Reboot
<1>2. Input => inputs' \in 0..MaxInputs
  BY DEF Input
<1>3. CASE Load \/ SaveTest \/ CountTest \/ ChangeClear \/ PinFlag \/ EnqWrite
  BY <1>3 DEF Load, SaveTest, CountTest, ChangeClear, PinFlag, EnqWrite
<1>4. CASE LoopTop \/ EnqFull \/ ResetMcuTask
  BY <1>1, <1>4 DEF LoopTop, EnqFull, ResetMcuTask
<1>5. CASE EnqRead
  BY <1>5 DEF EnqRead, QueueTypeOK, Queues, Slots
<1>6. CASE EnqIndex
  <2>1. /\ index \in Nat /\ q.rp \in Nat /\ q.count \in Nat
        /\ QueueSize \in Nat \ {0}
    BY DEF QueueTypeOK, Queues, Slots
  <2>2. index' \in 0..QueueSize
    BY <1>6, <2>1 DEF EnqIndex
  <2> QED
    BY <1>6, <2>2 DEF EnqIndex
<1>7. CASE EnqLoad
  BY <1>7 DEF EnqLoad, QueueTypeOK, Queues
<1>8. CASE EnqStore
  BY <1>8 DEF EnqStore
<1>9. CASE EnqKick \/ EnqWritten
  BY <1>9 DEF EnqKick, EnqWritten, Return
<1>10. CASE PinReset
  BY <1>2, <1>10 DEF PinReset
<1>11. CASE \/ \E f \in Fields, v \in Values \cup OutOfRange : StartCopy(f, v)
            \/ EndCopy
            \/ BootRequest
            \/ FlashEvent
  BY <1>2, <1>11 DEF StartCopy, EndCopy, BootRequest, FlashEvent
<1>12. CASE Flash
  BY <1>12 DEF Flash, Perform, Fail
<1>13. CASE PowerLoss
  BY <1>1, <1>2, <1>13 DEF PowerLoss
<1>14. CASE UNCHANGED vars
  BY <1>14 DEF vars
<1> QED
  BY <1>3, <1>4, <1>5, <1>6, <1>7, <1>8, <1>9, <1>10, <1>11, <1>12, <1>13, <1>14,
     RequestCopies
  DEF Next, Main, Handlers, Requests

-----------------------------------------------------------------------------
(* What flash holds, step by step.                                          *)

LEMMA RebootFlash ==
  ASSUME Reboot
  PROVE  FlashInv'
<1>1. /\ q'.state = "idle" /\ op' = "none" /\ pc' = "load" /\ up' = FALSE
  BY DEF Reboot, Empty
<1> QED
  BY <1>1 DEF FlashInv, Stored, Erased, Twice, InEnqueue

LEMMA LoopFlash ==
  ASSUME TypeOK, QueueInv, FlashInv,
         \/ Load \/ LoopTop \/ SaveTest \/ CountTest \/ ChangeClear
         \/ ResetMcuTask \/ PinReset \/ PinFlag
  PROVE  FlashInv'
<1> USE DEF At, Goto
<1>1. CASE Load
  <2>1. q' = q /\ op' = op /\ flash' = flash /\ job' = "clear" /\ Nothing(q, op)
    BY <1>1 DEF Load, QueueInv, BetweenSaves, InEnqueue
  <2>2. q.state = "idle" /\ op = "none" /\ ~Erased' /\ ~Twice'
    BY <2>1 DEF Erased, Twice, InEnqueue, Nothing, Idle
  <2>3. /\ pc' = IF cfg' = flash THEN "loop" ELSE "enqFull"
        /\ pc = "load" /\ cfg' \in Loaded(flash)
    BY <1>1 DEF Load
  <2>4. cfg' \in Configs
    BY <2>3, LoadedType DEF TypeOK, ConfigTypeOK
  <2>5. CASE cfg' = flash
    <3>1. Kept'
      BY <2>1, <2>4, <2>5, BlankAssumption DEF Kept
    <3> QED
      BY <2>2, <2>3, <2>5, <3>1 DEF FlashInv
  <2>6. CASE cfg' # flash
    <3>1. ~Stored'
      BY <2>1, <2>2, <2>3, <2>6 DEF Stored, Saving, InEnqueue
    <3> QED
      BY <2>2, <2>3, <2>6, <3>1 DEF FlashInv
  <2> QED
    BY <2>5, <2>6
<1>2. CASE ChangeClear
  <2>1. q' = q /\ op' = op /\ job' = "clear" /\ Nothing(q, op) /\ pc' = "enqFull"
    BY <1>2 DEF ChangeClear, QueueInv, BetweenSaves, InEnqueue
  <2> QED
    BY <2>1 DEF FlashInv, Stored, Erased, Twice, Saving, InEnqueue, Nothing, Idle
<1>3. CASE CountTest
  <2>1. /\ q' = q /\ op' = op /\ flash' = flash /\ cfg' = cfg /\ change' = change
        /\ copying' = copying /\ pc = "countTest"
        /\ pc' = IF q.count # 0 THEN "resetTask" ELSE "changeClear"
    BY <1>3 DEF CountTest
  <2>2. Stored' => Stored
    BY <2>1 DEF Stored, Saving, InEnqueue
  <2>3. Kept => Kept'
    BY <2>1 DEF Kept
  <2>4. (Erased' => Erased) /\ (Twice' => Twice)
    BY <2>1 DEF Erased, Twice, InEnqueue
  <2> QED
    BY <2>1, <2>2, <2>3, <2>4 DEF FlashInv
<1>4. CASE \/ LoopTop /\ ~Reboot
           \/ ResetMcuTask /\ ~Reboot
           \/ SaveTest \/ PinReset \/ PinFlag
  <2>1. /\ q' = q /\ op' = op /\ flash' = flash /\ copying' = copying
        /\ pc \in {"loop", "saveTest", "resetTask", "pinReset", "pinFlag"}
        /\ pc' \in {"saveTest", "countTest", "resetTask", "pinReset", "pinFlag", "loop"}
    BY <1>4 DEF LoopTop, SaveTest, ResetMcuTask, PinReset, PinFlag
  <2>2. Stored' => Stored
    BY <2>1 DEF Stored, Saving, InEnqueue
  <2>3. (Erased' => Erased) /\ (Twice' => Twice)
    BY <2>1 DEF Erased, Twice, InEnqueue
  <2>4. Kept => Kept'
    <3>1. CASE PinFlag
      BY <2>1, <3>1 DEF Kept, PinFlag
    <3>2. CASE PinReset
      <4>1. \A f \in {"name"} : cfg'[f] = cfg[f]
        BY <3>2 DEF PinReset, TypeOK, ConfigTypeOK, Configs, Fields
      <4>2. pc' = "pinFlag" \/ cfg' = cfg
        BY <3>2 DEF PinReset
      <4>3. pc = "pinReset" /\ change' = change
        BY <3>2 DEF PinReset
      <4> QED
        BY <2>1, <4>1, <4>2, <4>3 DEF Kept
    <3>3. CASE (LoopTop /\ ~Reboot) \/ SaveTest \/ (ResetMcuTask /\ ~Reboot)
      BY <2>1, <3>3 DEF Kept, LoopTop, SaveTest, ResetMcuTask
    <3> QED
      BY <1>4, <3>1, <3>2, <3>3
  <2> QED
    BY <2>1, <2>2, <2>3, <2>4 DEF FlashInv
<1>5. CASE Reboot
  BY <1>5, RebootFlash
<1> QED
  BY <1>1, <1>2, <1>3, <1>4, <1>5

LEMMA EnqueueFlash ==
  ASSUME TypeOK, QueueInv, FlashInv,
         EnqFull \/ EnqRead \/ EnqIndex \/ EnqWrite \/ EnqLoad \/ EnqStore
  PROVE  FlashInv'
<1> USE DEF At, Goto
<1>1. CASE Reboot
  BY <1>1, RebootFlash
<1>2. CASE ~Reboot
  <2>1. /\ op' = op /\ flash' = flash /\ cfg' = cfg /\ change' = change
        /\ copying' = copying /\ job' = job
        /\ pc \in {"enqFull", "enqRead", "enqRp", "enqCount", "enqWrite",
                   "enqLoad", "enqStore"}
        /\ pc' \in {"enqRead", "enqRp", "enqCount", "enqWrite", "enqLoad",
                    "enqStore", "enqKick"}
        /\ pc' = "enqKick" => EnqStore
    BY <1>2 DEF EnqFull, EnqRead, EnqIndex, EnqWrite, EnqLoad, EnqStore
  <2>2. q'.state = q.state /\ q'.written = q.written
    BY <1>2 DEF EnqFull, EnqRead, EnqIndex, EnqWrite, EnqLoad, EnqStore,
                TypeOK, QueueTypeOK, Queues
  <2>3. EnqStore => q'.count # 0
    <3>1. loaded + 1 # 0
      BY ConfigStoreAssumption DEF TypeOK, LoopTypeOK
    <3> QED
      BY <3>1 DEF EnqStore, TypeOK, QueueTypeOK, Queues
  <2>4. Stored' => Stored
    BY <2>1, <2>2, <2>3 DEF Stored, Saving, InEnqueue
  <2>5. Kept => Kept'
    BY <2>1 DEF Kept
  <2>6. (Erased' => Erased) /\ (Twice' <=> Twice)
    BY <2>1, <2>2 DEF Erased, Twice, InEnqueue
  <2> QED
    BY <2>1, <2>2, <2>4, <2>5, <2>6 DEF FlashInv
<1> QED
  BY <1>1, <1>2

LEMMA KickFlash ==
  ASSUME TypeOK, QueueInv, FlashInv, EnqKick
  PROVE  FlashInv'
<1>1. /\ q \in Queues /\ pc = "enqKick" /\ job \in {"clear", "store"}
      /\ flash' = flash /\ cfg' = cfg /\ change' = change /\ copying' = copying
      /\ IF q.state = "idle" /\ q'.state = "store"
         THEN pc' = "enqWritten" /\ job' = job
         ELSE /\ job' = IF job = "clear" THEN "store" ELSE "clear"
              /\ pc' = IF job = "clear" THEN "enqFull"
                       ELSE IF up THEN "resetTask" ELSE "loop"
  BY DEF EnqKick, Return, At, Goto, TypeOK, QueueTypeOK, LoopTypeOK
<1>2. \/ q' = q /\ op' = op /\ (Idle(q, op) => q.cmd[q.rp] = "none")
      \/ /\ Idle(q, op)
         /\ q'.count = q.count
         /\ \/ q.cmd[q.rp] = "clear" /\ q'.state = "erase" /\ op' = "erase"
            \/ /\ q.cmd[q.rp] \notin {"none", "clear"}
               /\ q'.state = "store" /\ op' = "write"
  <2>1. CASE q.state # "idle"
    BY <2>1 DEF EnqKick, Becomes, Storage, Idle
  <2>2. CASE q.state = "idle"
    <3>1. op = "none"
      <4>1. op # "none" => q.state \in {"erase", "store"}
        BY Performed
      <4> QED
        BY <2>2, <4>1
    <3>2. Idle(q, op)
      BY <2>2, <3>1 DEF Idle
    <3>4. CASE q.cmd[q.rp] = "none"
      BY <1>1, <3>2, <3>4, KickStarts
    <3>5. CASE q.cmd[q.rp] = "clear"
      <4>1. q' = [q EXCEPT !.state = "erase"] /\ op' = "erase"
        BY <1>1, <3>2, <3>5, KickStarts
      <4> QED
        BY <1>1, <3>2, <3>5, <4>1 DEF Queues
    <3>6. CASE q.cmd[q.rp] \notin {"none", "clear"}
      <4>1. q' = [q EXCEPT !.state = "store"] /\ op' = "write"
        BY <1>1, <3>2, <3>6, KickStarts
      <4> QED
        BY <1>1, <3>2, <3>6, <4>1 DEF Queues
    <3> QED
      BY <3>4, <3>5, <3>6
  <2> QED
    BY <2>1, <2>2
<1>3. Kept => Kept'
  BY <1>1 DEF Kept
<1>4. CASE job = "clear"
  <2>1. Idle(q, op) /\ q.cmd[q.rp] = "clear"
    BY <1>1, <1>4 DEF QueueInv, QueueingClear, InEnqueue, Looking
  <2>2. q'.state = "erase" /\ op' = "erase"
    BY <1>2, <2>1
  <2>3. pc' = "enqFull"
    BY <1>1, <1>4, <2>2
  <2>4. ~Stored' /\ ~Twice'
    BY <2>2, <2>3 DEF Stored, Twice, Saving, InEnqueue
  <2>5. ~Erased'
    BY <2>2 DEF Erased
  <2> QED
    BY <2>3, <2>4, <2>5 DEF FlashInv
<1>5. CASE job = "store"
  <2>1. q.cmd[q.rp] # "clear" \/ ~Idle(q, op)
    <3>1. \/ ClearFirst(q, op)
          \/ StoreAlone(q, op)
          \/ StoreAt(q, op, index) /\ index \in Slots
          \/ StoreAt(q, op, q.rp)
          \/ Nothing(q, op)
      BY <1>1, <1>5 DEF QueueInv, QueueingStore, InEnqueue
    <3>2. q.rp \in Slots
      BY <1>1 DEF Queues
    <3> QED
      BY <3>1, <3>2 DEF ClearFirst, StoreAlone, StoreAt, Nothing, Clears, Stores,
                        Performs, Idle, FreeBut
  <2>2. CASE q' = q /\ op' = op
    <3>1. /\ pc' \in {"resetTask", "loop"}
          /\ pc' = "loop" \/ pc' = "resetTask"
      BY <1>1, <1>5, <2>2
    <3>2. Stored' => Stored
      BY <1>1, <2>2, <3>1 DEF Stored, Saving, InEnqueue
    <3>3. ~Erased' \/ Erased
      BY <1>1, <2>2, <3>1 DEF Erased, InEnqueue
    <3>4. Twice' <=> Twice
      BY <1>1, <2>2 DEF Twice
    <3> QED
      BY <1>3, <2>2, <3>1, <3>2, <3>3, <3>4, <1>1 DEF FlashInv
  <2>3. CASE q'.state = "store" /\ op' = "write" /\ Idle(q, op)
             /\ q.cmd[q.rp] # "none" /\ q'.count = q.count
    <3>1. q.count # 0
      <4>1. ~Nothing(q, op)
        BY <1>1, <2>3 DEF Nothing, FreeBut, Queues
      <4> QED
        BY <1>1, <1>5, <2>3, <4>1
        DEF QueueInv, QueueingStore, InEnqueue, ClearFirst, StoreAlone,
            Clears, Stores, Performs, Idle
    <3>2. Erased
      BY <1>1, <1>5, <2>3, <3>1 DEF Erased, InEnqueue, Idle
    <3>3. flash' = Blank
      BY <1>1, <3>2 DEF FlashInv
    <3>4. ~Stored' /\ ~Twice' /\ ~Erased'
      BY <2>3, <3>1, <3>3 DEF Stored, Twice, Erased
    <3>5. pc' = "enqWritten"
      BY <1>1, <2>3 DEF Idle
    <3> QED
      BY <3>4, <3>5 DEF FlashInv
  <2> QED
    BY <1>2, <2>1, <2>2, <2>3
<1> QED
  BY <1>1, <1>4, <1>5

LEMMA WrittenFlash ==
  ASSUME TypeOK, QueueInv, FlashInv, EnqWritten
  PROVE  FlashInv'
<1>1. /\ op' = op /\ q'.state = q.state /\ q'.count = q.count
      /\ pc = "enqWritten" /\ job = "store" /\ job' = "clear"
      /\ pc' \in {"resetTask", "loop"}
      /\ q.state = "store" => q'.written
  BY WrittenQueue
<1>2. flash' = flash /\ cfg' = cfg /\ change' = change /\ copying' = copying
  BY DEF EnqWritten
<1>3. Kept => Kept'
  BY <1>1, <1>2 DEF Kept
<1>4. Stored' => Stored
  BY <1>1, <1>2 DEF Stored, Saving, InEnqueue
<1>5. Erased' => Erased
  BY <1>1 DEF Erased, InEnqueue
<1>6. Twice' => q'.written
  BY <1>1 DEF Twice
<1> QED
  BY <1>1, <1>2, <1>3, <1>4, <1>5, <1>6 DEF FlashInv

(* A handler changes a field only marked or about to be marked.             *)
LEMMA HandlerFlash ==
  ASSUME TypeOK, FlashInv,
         \/ \E f \in Fields, v \in Values \cup OutOfRange : StartCopy(f, v)
         \/ EndCopy
         \/ BootRequest
  PROVE  FlashInv'
<1>1. /\ q' = q /\ op' = op /\ pc' = pc /\ job' = job /\ flash' = flash /\ up' = up
  BY DEF StartCopy, EndCopy, BootRequest, mainVars
<1>2. (Stored' <=> Stored) /\ (Erased' <=> Erased) /\ (Twice' <=> Twice)
  BY <1>1 DEF Stored, Erased, Twice, Saving, InEnqueue
<1>3. Kept => Kept'
  <2>1. ASSUME NEW f \in Fields, NEW v \in Values \cup OutOfRange, StartCopy(f, v), Kept
        PROVE  Kept'
    <3>1. copying = NoCopy /\ copying.field = "none" /\ copying'.field = f
      BY <2>1 DEF StartCopy, Handling, NoCopy
    <3>2. \A g \in Fields \ {f} : cfg'[g] = cfg[g]
      BY <2>1 DEF StartCopy, TypeOK, ConfigTypeOK, Configs
    <3>3. change' = change
      BY <2>1 DEF StartCopy
    <3> QED
      BY <1>1, <2>1, <3>1, <3>2, <3>3 DEF Kept, Fields
  <2>2. ASSUME EndCopy, Kept
        PROVE  Kept'
    <3>1. copying.field \in Fields
      BY <2>2 DEF EndCopy, Handling, TypeOK, ConfigTypeOK
    <3>2. \A g \in Fields \ {copying.field} : cfg'[g] = cfg[g]
      BY <2>2 DEF EndCopy, TypeOK, ConfigTypeOK, Configs
    <3>3. change => change'
      BY <2>2, Zenon DEF EndCopy
    <3>4. copying.field # "key" => change'
      BY <2>2, Zenon DEF EndCopy
    <3> QED
      BY <1>1, <2>2, <3>1, <3>2, <3>3, <3>4 DEF Kept, Fields
  <2>3. ASSUME BootRequest, Kept
        PROVE  Kept'
    BY <1>1, <2>3 DEF BootRequest, Kept
  <2> QED
    BY <2>1, <2>2, <2>3
<1> QED
  BY <1>1, <1>2, <1>3 DEF FlashInv

(* A store programs what is in use then, on the page the clear erased; when  *)
(* it is issued once more, on what it left there itself.                    *)
LEMMA FlashFlash ==
  ASSUME TypeOK, QueueInv, FlashInv, Flash
  PROVE  FlashInv'
<1>1. /\ q' = q /\ pc' = pc /\ job' = job /\ cfg' = cfg /\ up' = up
      /\ op \in {"erase", "write"}
  BY DEF Flash, Perform, Fail, mainVars
<1>2. /\ op = "erase" => q.state = "erase"
      /\ op = "write" => q.state = "store"
      /\ q.count # 0
  BY <1>1, Performed, WhenRunning
<1>3. CASE Perform /\ op = "erase"
  BY <1>1, <1>2, <1>3 DEF Perform, FlashInv, Stored, Erased, Twice
<1>4. CASE Perform /\ op = "write"
  <2>1. flash' = Programmed(flash) /\ op' = "done"
    BY <1>4 DEF Perform
  <2>2. cfg \in Configs /\ change' = change /\ copying' = copying
    BY <1>4 DEF Perform, TypeOK, ConfigTypeOK
  <2>3. Kept'
    <3>1. CASE flash = Blank
      BY <1>1, <2>1, <2>2, <3>1, BlankAssumption DEF Kept, Programmed
    <3>2. CASE flash # Blank
      <4>1. Kept
        BY <1>2, <1>4, <3>2 DEF FlashInv, Stored
      <4>2. flash' = [f \in Fields |-> IF flash[f] = cfg[f] THEN cfg[f] ELSE Torn]
        BY <2>1, <3>2 DEF Programmed
      <4>3. flash' \in Configs
        BY <2>2, <4>2 DEF Configs
      <4>4. \A f \in {"pin", "name"} : flash[f] = cfg[f] => flash'[f] = cfg'[f]
        BY <1>1, <4>2 DEF Fields
      <4> QED
        BY <1>1, <2>2, <4>1, <4>3, <4>4, BlankAssumption DEF Kept
    <3> QED
      BY <3>1, <3>2
  <2>4. ~Erased' /\ ~Twice'
    BY <1>1, <1>2, <1>4, <2>1 DEF Erased, Twice
  <2> QED
    BY <1>1, <2>3, <2>4 DEF FlashInv
<1>5. CASE Fail
  <2>1. op' = "failed" /\ flash' = flash
    BY <1>5 DEF Fail
  <2>2. Stored' => Stored
    BY <1>1, <1>2, <2>1 DEF Stored
  <2>3. ~Erased' /\ (Twice' => Twice)
    BY <1>1, <1>2, <2>1 DEF Erased, Twice
  <2>4. Kept => Kept'
    BY <1>1, <1>5 DEF Fail, Kept
  <2> QED
    BY <1>1, <2>1, <2>2, <2>3, <2>4 DEF FlashInv
<1> QED
  BY <1>1, <1>3, <1>4, <1>5 DEF Flash

LEMMA DoneFlash ==
  ASSUME TypeOK, QueueInv, FlashInv, FlashEvent, op = "done"
  PROVE  FlashInv'
<1>1. /\ pc' = pc /\ job' = job /\ flash' = flash /\ cfg' = cfg /\ up' = up
      /\ change' = change /\ copying' = copying
  BY DEF FlashEvent, mainVars
<1>2. InEnqueue => job = "store"
  BY WhenRunning
<1>3. Kept => Kept'
  BY <1>1 DEF Kept
<1>4. ~Idle(q, op) /\ ~Nothing(q, op) /\ \A i : ~StoreAt(q, op, i)
  BY DEF Idle, Nothing, StoreAt
<1>5. pc \notin {"load", "changeClear"}
  BY <1>4 DEF QueueInv, BetweenSaves, InEnqueue
<1>6. ASSUME q.state = "erase" PROVE flash' = Blank
  BY <1>1, <1>6 DEF FlashInv, Erased
<1>12. q'.state = "store" => q'.written
  BY DoneEvent
<1>7. CASE ClearAlone(q, op) /\ q.count = 1 /\ ~ClearFirst(q, op)
  <2>1. Nothing(q', op') /\ q.state = "erase"
    BY <1>7, DoneEvent, Performed
  <2>2. InEnqueue /\ pc \notin {"enqKick", "enqWritten"}
    BY <1>2, <1>4, <1>7
    DEF QueueInv, QueueingStore, BetweenSaves, StoreAlone, Stores, ClearAlone,
        Clears, Performs, InEnqueue, Looking
  <2>3. ~Stored' /\ ~Twice'
    BY <1>1, <2>1, <2>2 DEF Stored, Twice, Saving, InEnqueue, Nothing, Idle
  <2> QED
    BY <1>1, <1>6, <2>1, <2>3, <1>5 DEF FlashInv
<1>8. CASE ClearFirst(q, op) /\ q.count = 1
  <2>1. StoreAt(q', op', After(q.rp)) /\ q.state = "erase"
    BY <1>8, DoneEvent, Performed
  <2>2. InEnqueue /\ pc \notin {"enqKick", "enqWritten"}
    BY <1>2, <1>4, <1>8
    DEF QueueInv, QueueingStore, BetweenSaves, StoreAlone, Stores, ClearFirst,
        Clears, Performs, InEnqueue, Looking
  <2>3. ~Stored' /\ ~Twice'
    BY <1>1, <2>1, <2>2 DEF Stored, Twice, Saving, InEnqueue, StoreAt, Idle
  <2> QED
    BY <1>1, <1>6, <2>1, <2>3, <1>5 DEF FlashInv
<1>9. CASE ClearFirst(q, op) /\ q.count = 2
  <2>1. /\ q'.state = "store" /\ op' = "write" /\ q'.count = 1
        /\ q.state = "erase"
    BY <1>9, DoneEvent, Performed
  <2>2. flash' = Blank
    BY <1>6, <2>1
  <2>3. ~Stored' /\ ~Twice' /\ ~Erased'
    BY <2>1, <2>2 DEF Stored, Twice, Erased
  <2> QED
    BY <1>1, <1>5, <2>3 DEF FlashInv
<1>10. CASE StoreAlone(q, op) /\ q.written /\ q.count = 1
  <2>1. Nothing(q', op') /\ q.state = "store"
    BY <1>10, DoneEvent, Performed
  <2>2. InEnqueue => pc \in {"enqKick", "enqWritten"}
    BY <1>2, <1>4, <1>10
    DEF QueueInv, QueueingStore, StoreAlone, Stores, ClearAlone, ClearFirst,
        Clears, Performs, InEnqueue, Looking
  <2>3. Kept
    BY <2>1 DEF FlashInv, Stored
  <2>4. ~Erased' /\ ~Twice'
    BY <1>1, <2>1, <2>2 DEF Erased, Twice, Nothing, Idle, InEnqueue
  <2> QED
    BY <1>1, <1>3, <1>5, <2>3, <2>4 DEF FlashInv
<1>11. CASE StoreAlone(q, op) /\ q.written /\ q.count = 2
  <2>1. Idle(q', op') /\ q'.count = 1 /\ q.state = "store"
    BY <1>11, DoneEvent, Performed
  <2>2. InEnqueue => pc = "enqWritten"
    BY <1>2, <1>4, <1>11
    DEF QueueInv, QueueingStore, StoreAlone, Stores, ClearAlone, ClearFirst,
        Clears, Performs, InEnqueue, Looking
  <2>3. ~Erased' /\ ~Stored' /\ ~Twice'
    BY <1>1, <2>1, <2>2 DEF Erased, Stored, Twice, Idle, InEnqueue
  <2> QED
    BY <1>1, <1>5, <2>3 DEF FlashInv
<1>13. CASE StoreAlone(q, op) /\ ~q.written
  <2>1. q'.state = "store" /\ op' = "write" /\ q.state = "store"
    BY <1>13, DoneEvent, Performed
  <2>2. Kept
    BY <2>1 DEF FlashInv, Stored
  <2>3. ~Erased'
    BY <2>1 DEF Erased
  <2> QED
    BY <1>1, <1>3, <1>5, <1>12, <2>1, <2>2, <2>3 DEF FlashInv
<1> QED
  BY <1>7, <1>8, <1>9, <1>10, <1>11, <1>13, WhenRunning

LEMMA FailedFlash ==
  ASSUME TypeOK, QueueInv, FlashInv, FlashEvent, op = "failed"
  PROVE  FlashInv'
<1>1. /\ pc' = pc /\ job' = job /\ flash' = flash /\ up' = up /\ cfg' = cfg
      /\ change' = change /\ copying' = copying
  BY DEF FlashEvent, mainVars
<1>2. /\ q'.count = q.count
      /\ \/ /\ q'.state = q.state
            /\ op' = IF q.state = "erase" THEN "erase" ELSE "write"
         \/ q'.state = "error" /\ op' = "none"
      /\ q'.state = "store" => q'.written
  BY FailedEvent
<1>3. q.state \in {"erase", "store"} /\ q.count # 0
  BY Performed, WhenRunning
<1>4. Stored' => Stored
  BY <1>1, <1>2, <1>3 DEF Stored
<1>5. ~Erased' /\ (Twice' => q'.written)
  BY <1>2, <1>3 DEF Erased, Twice
<1>6. Kept => Kept'
  BY <1>1 DEF Kept
<1> QED
  BY <1>1, <1>4, <1>5, <1>6 DEF FlashInv

LEMMA FlashStep ==
  ASSUME TypeOK, QueueInv, FlashInv, [Next]_vars
  PROVE  FlashInv'
<1>1. CASE Main
  BY <1>1, LoopFlash, EnqueueFlash, KickFlash, WrittenFlash DEF Main
<1>2. CASE \/ \E f \in Fields, v \in Values \cup OutOfRange : StartCopy(f, v)
           \/ EndCopy
           \/ BootRequest
  BY <1>2, HandlerFlash
<1>3. CASE FlashEvent
  BY <1>3, DoneFlash, FailedFlash DEF FlashEvent
<1>4. CASE Flash
  BY <1>4, FlashFlash
<1>5. CASE PowerLoss
  BY <1>5, RebootFlash DEF PowerLoss
<1>6. CASE UNCHANGED vars
  BY <1>6 DEF FlashInv, Stored, Erased, Twice, Kept, Saving, InEnqueue, vars, mainVars
<1> QED
  BY <1>1, <1>2, <1>3, <1>4, <1>5, <1>6, RequestCopies DEF Next, Handlers, Requests

LEMMA ConfigInvInit == Init => ConfigInv
<1> SUFFICES ASSUME Init PROVE ConfigInv
  OBVIOUS
<1>1. Empty \in Queues
  BY ConfigStoreAssumption DEF Empty, Queues, Slots
<1>2. TypeOK
  <2>1. ConfigTypeOK
    BY DEF Init, ConfigTypeOK, Defaults, Configs
  <2>2. QueueTypeOK
    BY <1>1 DEF Init, QueueTypeOK
  <2>3. LoopTypeOK
    BY ConfigStoreAssumption DEF Init, LoopTypeOK, MainLabels
  <2> QED
    BY <2>1, <2>2, <2>3 DEF TypeOK
<1>3. Nothing(Empty, "none") /\ ~Empty.busy
  BY DEF Nothing, Idle, FreeBut, Empty
<1>4. QueueInv
  BY <1>3 DEF Init, QueueInv, QueueingClear, QueueingStore, BetweenSaves, InEnqueue
<1>5. FlashInv
  BY DEF Init, Empty, FlashInv, Stored, Erased, Twice, InEnqueue
<1> QED
  BY <1>2, <1>4, <1>5 DEF ConfigInv

LEMMA ConfigInvStep == ConfigInv /\ [Next]_vars => ConfigInv'
BY QueueStep, ConfigTypeStep, LoopTypeStep, FlashStep DEF ConfigInv, TypeOK

THEOREM ConfigInvariant == Spec => []ConfigInv
BY ConfigInvInit, ConfigInvStep, PTL DEF Spec

-----------------------------------------------------------------------------
(* What follows.                                                            *)

(* Every variable stays in its range; the read pointer and the count stay   *)
(* within the queue, although an event may come between the load and the    *)
(* store of count++ (pstorage.c:250-261, 631-670).                          *)
THEOREM ConfigTypeCorrect == Spec => []TypeOK
<1>1. ConfigInv => TypeOK
  BY DEF ConfigInv
<1> QED
  BY <1>1, ConfigInvariant, PTL

(* The module never asks for a flash operation while one is running         *)
(* (pstorage.c:401-470, 672-700).                                           *)
THEOREM OneFlashOperation == Spec => []OneFlashOperationAtATime
<1>1. ConfigInv => OneFlashOperationAtATime
  BY DEF ConfigInv, QueueInv, OneFlashOperationAtATime
<1> QED
  BY <1>1, ConfigInvariant, PTL

(* A save always finds room for its clear and its store.                    *)
THEOREM RoomForSave == Spec => []QueueHasRoom
<1>1. ASSUME ConfigInv PROVE QueueHasRoom
  <2>1. QueueSize \in Nat /\ QueueSize >= 2
    BY ConfigStoreAssumption
  <2>2. CASE job = "clear"
    BY <1>1, <2>1, <2>2
    DEF ConfigInv, QueueInv, QueueingClear, InEnqueue, Looking, Nothing, QueueHasRoom
  <2>3. CASE job = "store"
    BY <1>1, <2>1, <2>3
    DEF ConfigInv, QueueInv, QueueingStore, InEnqueue, Looking, Nothing, QueueHasRoom
  <2> QED
    BY <1>1, <2>2, <2>3 DEF ConfigInv, TypeOK, LoopTypeOK
<1> QED
  BY <1>1, ConfigInvariant, PTL

(* A PIN or a name in use is in flash once nothing is marked, being copied  *)
(* or pending, whatever changes, failures and resets came before            *)
(* (system_config.c:63-77, 140-170).                                        *)
THEOREM ConfigSaved == Spec => []SavedWhenSettled
<1>1. ASSUME ConfigInv PROVE SavedWhenSettled
  <2> SUFFICES ASSUME up, ~change, ~Handling, ~Saving, pc # "pinFlag", q.count = 0
               PROVE  /\ flash # Blank
                      /\ flash["pin"] = cfg["pin"]
                      /\ flash["name"] = cfg["name"]
    BY DEF SavedWhenSettled
  <2>1. Kept
    BY <1>1 DEF ConfigInv, FlashInv, Stored
  <2>2. copying.field = "none"
    BY DEF Handling, NoCopy
  <2> QED
    BY <2>1, <2>2 DEF Kept
<1> QED
  BY <1>1, ConfigInvariant, PTL

-----------------------------------------------------------------------------
(* The count, when no flash event comes in the middle of an enqueue: of the *)
(* shapes of QueueInv only those are left in which the module sees every    *)
(* command it is given.                                                     *)

Undisturbed ==
  /\ InEnqueue /\ job = "store" =>
       /\ Looking => ClearAlone(q, op) /\ q.count = 1
       /\ pc \in {"enqLoad", "enqStore"} => ClearFirst(q, op) /\ q.count = 1
       /\ pc = "enqStore" => loaded = 1
       /\ pc = "enqKick" => ClearFirst(q, op) /\ q.count = 2
       /\ pc # "enqWritten"
  /\ ~InEnqueue => \/ Nothing(q, op)
                   \/ ClearFirst(q, op) /\ q.count = 2
                   \/ StoreAlone(q, op) /\ q.count = 1

LEMMA UndisturbedFlash ==
  ASSUME TypeOK, QueueInv, Undisturbed, Flash
  PROVE  Undisturbed'
<1>1. /\ op \in {"erase", "write"}
      /\ op' \in {"done", "failed"}
      /\ q' = q /\ pc' = pc /\ job' = job /\ index' = index /\ loaded' = loaded
  BY DEF Flash, Perform, Fail, mainVars
<1>2. ~Nothing(q, op)
  BY <1>1 DEF Idle, Nothing
<1>3. /\ Clears(q, op) => Clears(q, op')
      /\ Stores(q, op) => Stores(q, op')
  BY <1>1 DEF Clears, Stores, Performs
<1>4. /\ ClearAlone(q, op) => ClearAlone(q, op')
      /\ ClearFirst(q, op) => ClearFirst(q, op')
      /\ StoreAlone(q, op) => StoreAlone(q, op')
  BY <1>3 DEF ClearAlone, ClearFirst, StoreAlone
<1> QED
  BY <1>1, <1>2, <1>4 DEF Undisturbed, InEnqueue, Looking

(* An event finds the save whole, and the main loop outside its enqueues.   *)
LEMMA UndisturbedEvent ==
  ASSUME TypeOK, QueueInv, Undisturbed, FlashEvent, ~EventsInEnqueue
  PROVE  Undisturbed'
<1>1. ~InEnqueue /\ op \in {"done", "failed"}
  BY DEF FlashEvent
<1>2. \/ ClearFirst(q, op) /\ q.count = 2
      \/ StoreAlone(q, op) /\ q.count = 1
  BY <1>1 DEF Undisturbed, Nothing, Idle
<1>3. CASE op = "failed"
  <2>1. /\ UNCHANGED <<pc, job, index, loaded>>
        /\ q'.rp = q.rp /\ q'.cmd = q.cmd /\ q'.count = q.count
        /\ \/ /\ q'.state = q.state
              /\ q'.tries < MaxTries
              /\ op' = IF q.state = "erase" THEN "erase" ELSE "write"
           \/ q'.state = "error" /\ op' = "none"
    BY <1>3, FailedEvent
  <2>2. /\ Clears(q, op) => Clears(q', op')
        /\ Stores(q, op) => Stores(q', op')
    BY <1>1, <2>1 DEF Clears, Stores, Performs
  <2>3. /\ ClearFirst(q, op) => ClearFirst(q', op')
        /\ StoreAlone(q, op) => StoreAlone(q', op')
    BY <2>1, <2>2 DEF ClearFirst, StoreAlone, FreeBut
  <2> QED
    BY <1>1, <1>2, <2>1, <2>3 DEF Undisturbed, InEnqueue
<1>4. CASE op = "done"
  <2>1. /\ UNCHANGED <<pc, job, index, loaded>>
        /\ ClearFirst(q, op) /\ q.count = 2 =>
             StoreAlone(q', op') /\ q'.count = 1
        /\ StoreAlone(q, op) /\ q.count = 1 =>
             (Nothing(q', op') \/ (StoreAlone(q', op') /\ q'.count = 1))
    BY <1>4, DoneEvent
  <2> QED
    BY <1>1, <1>2, <2>1 DEF Undisturbed, InEnqueue
<1> QED
  BY <1>1, <1>3, <1>4

LEMMA UndisturbedReboot ==
  ASSUME TypeOK, QueueInv, Reboot
  PROVE  Undisturbed'
<1>1. q' = Empty /\ op' = "none" /\ pc' = "load"
  BY DEF Reboot
<1>2. Nothing(Empty, "none")
  BY DEF Nothing, Idle, FreeBut, Empty
<1> HIDE DEF Nothing
<1> QED
  BY <1>1, <1>2 DEF Undisturbed, InEnqueue

LEMMA UndisturbedLoop ==
  ASSUME TypeOK, QueueInv, Undisturbed,
         \/ Load \/ LoopTop \/ SaveTest \/ CountTest \/ ChangeClear
         \/ ResetMcuTask \/ PinReset \/ PinFlag
         \/ EnqFull \/ EnqRead \/ EnqIndex \/ EnqLoad
  PROVE  Undisturbed'
<1> USE DEF At, Goto
<1>1. CASE Reboot
  BY <1>1, UndisturbedReboot
<1>2. CASE Load \/ ChangeClear
  <2>1. pc' \in {"enqFull", "loop"} /\ job' = "clear" /\ q' = q /\ op' = op
        /\ pc \in {"load", "changeClear"}
    BY <1>2 DEF Load, ChangeClear
  <2>2. Nothing(q, op)
    BY <2>1 DEF QueueInv, BetweenSaves, InEnqueue
  <2> QED
    BY <2>1, <2>2 DEF Undisturbed, InEnqueue
<1>3. CASE /\ \/ LoopTop \/ ResetMcuTask
              \/ SaveTest \/ CountTest \/ PinReset \/ PinFlag
           /\ ~Reboot
  <2>1. /\ q' = q /\ op' = op
        /\ pc \in {"loop", "saveTest", "countTest", "resetTask", "pinReset", "pinFlag"}
        /\ pc' \in {"saveTest", "countTest", "changeClear", "resetTask", "pinReset",
                    "pinFlag", "loop"}
    BY <1>3 DEF LoopTop, SaveTest, CountTest, ResetMcuTask, PinReset, PinFlag
  <2> QED
    BY <2>1 DEF Undisturbed, InEnqueue
<1>4. CASE (EnqFull /\ ~Reboot) \/ EnqRead \/ EnqIndex
  <2>1. /\ q' = q /\ op' = op /\ job' = job
        /\ pc \in {"enqFull", "enqRead", "enqRp", "enqCount"}
        /\ pc' \in {"enqRead", "enqRp", "enqCount", "enqWrite"}
    BY <1>4 DEF EnqFull, EnqRead, EnqIndex
  <2> QED
    BY <2>1 DEF Undisturbed, InEnqueue, Looking
<1>5. CASE EnqLoad
  <2>1. /\ q' = q /\ op' = op /\ job' = job /\ loaded' = q.count
        /\ pc = "enqLoad" /\ pc' = "enqStore"
    BY <1>5 DEF EnqLoad
  <2> QED
    BY <2>1 DEF Undisturbed, InEnqueue, Looking
<1> QED
  BY <1>1, <1>2, <1>3, <1>4, <1>5

LEMMA UndisturbedWrite ==
  ASSUME TypeOK, QueueInv, Undisturbed, EnqWrite
  PROVE  Undisturbed'
<1>1. /\ q'.count = q.count /\ job' = job /\ pc = "enqWrite" /\ pc' = "enqLoad"
  BY DEF EnqWrite, At, Goto, TypeOK, QueueTypeOK, Queues
<1>2. job = "store" => q'.count = 1
  BY <1>1 DEF Undisturbed, InEnqueue, Looking
<1>3. QueueInv'
  BY WriteQueue
<1>4. job = "store" => \/ ClearFirst(q', op') /\ q'.count = 1
                       \/ q'.count = 0
  BY <1>1, <1>3 DEF QueueInv, QueueingStore, InEnqueue
<1> QED
  BY <1>1, <1>2, <1>4 DEF Undisturbed, InEnqueue, Looking

LEMMA UndisturbedCount ==
  ASSUME TypeOK, QueueInv, Undisturbed, EnqStore
  PROVE  Undisturbed'
<1>1. /\ q'.count = loaded + 1 /\ q'.state = q.state /\ job' = job
      /\ pc = "enqStore" /\ pc' = "enqKick"
  BY DEF EnqStore, At, Goto, TypeOK, QueueTypeOK, Queues
<1>2. job = "store" => q'.count = 2 /\ q'.state # "idle"
  BY <1>1 DEF Undisturbed, InEnqueue, Looking, ClearFirst, Clears, Performs
<1>3. QueueInv'
  BY CountQueue
<1>4. job = "store" => \/ ClearFirst(q', op') /\ q'.count = 2
                       \/ q'.count = 1
                       \/ q'.state = "idle"
  BY <1>1, <1>3 DEF QueueInv, QueueingStore, InEnqueue, StoreAt, Nothing, Idle
<1> QED
  BY <1>1, <1>2, <1>4 DEF Undisturbed, InEnqueue, Looking

LEMMA UndisturbedKick ==
  ASSUME TypeOK, QueueInv, Undisturbed, EnqKick
  PROVE  Undisturbed'
<1>1. /\ pc = "enqKick" /\ job \in {"clear", "store"} /\ q \in Queues
      /\ q'.state # "store" \/ q.state # "idle" =>
           /\ job' = IF job = "clear" THEN "store" ELSE "clear"
           /\ pc' = IF job = "clear" THEN "enqFull"
                    ELSE IF up THEN "resetTask" ELSE "loop"
  BY DEF EnqKick, Return, At, Goto, TypeOK, QueueTypeOK, LoopTypeOK
<1>2. CASE job = "clear"
  <2>1. Idle(q, op) /\ q.cmd[q.rp] = "clear" /\ q.count = 1
    BY <1>1, <1>2 DEF QueueInv, QueueingClear, InEnqueue, Looking
  <2>2. q' = [q EXCEPT !.state = "erase"]
    BY <1>1, <2>1, KickStarts
  <2>3. q'.count = 1 /\ q'.state = "erase"
    BY <1>1, <2>1, <2>2 DEF Queues
  <2>4. QueueInv'
    BY KickQueue
  <2>7. pc' = "enqFull" /\ job' = "store"
    BY <1>1, <1>2, <2>3
  <2>5. Nothing(q', op') \/ (ClearAlone(q', op') /\ q'.count = 1)
    BY <2>4, <2>7 DEF QueueInv, QueueingStore, InEnqueue, Looking
  <2>6. ~Nothing(q', op')
    BY <2>3 DEF Nothing
  <2> QED
    BY <2>5, <2>6, <2>7 DEF Undisturbed, InEnqueue, Looking
<1>3. CASE job = "store"
  <2>1. ClearFirst(q, op) /\ q.count = 2
    BY <1>1, <1>3 DEF Undisturbed, InEnqueue
  <2>2. q.state # "idle"
    BY <2>1 DEF ClearFirst, Clears, Performs
  <2>3. q' = q /\ op' = op
    BY <2>2 DEF EnqKick, Becomes, Storage
  <2>4. pc' \in {"resetTask", "loop"}
    BY <1>1, <1>3, <2>2
  <2> QED
    BY <2>1, <2>3, <2>4 DEF Undisturbed, InEnqueue
<1> QED
  BY <1>1, <1>2, <1>3

(* The store of a save always finds its clear before it, so that the main   *)
(* program never starts a store itself.                                     *)
LEMMA UndisturbedWritten ==
  ASSUME TypeOK, QueueInv, Undisturbed
  PROVE  ~EnqWritten
<1> SUFFICES ASSUME EnqWritten PROVE FALSE
  OBVIOUS
<1>1. pc = "enqWritten" /\ job = "store"
  BY WrittenQueue
<1> QED
  BY <1>1 DEF Undisturbed, InEnqueue

LEMMA UndisturbedStep ==
  ASSUME TypeOK, QueueInv, Undisturbed, ~EventsInEnqueue, [Next]_vars
  PROVE  Undisturbed'
<1>1. CASE Main
  BY <1>1, UndisturbedLoop, UndisturbedWrite, UndisturbedCount, UndisturbedKick,
     UndisturbedWritten DEF Main
<1>2. CASE \/ \E f \in Fields, v \in Values \cup OutOfRange : StartCopy(f, v)
           \/ EndCopy
           \/ BootRequest
           \/ UNCHANGED vars
  <2>1. UNCHANGED <<q, op, mainVars>>
    BY <1>2 DEF StartCopy, EndCopy, BootRequest, vars, mainVars
  <2> QED
    BY <2>1 DEF Undisturbed, InEnqueue, Looking, mainVars
<1>3. CASE FlashEvent
  BY <1>3, UndisturbedEvent
<1>4. CASE Flash
  BY <1>4, UndisturbedFlash
<1>5. CASE PowerLoss
  BY <1>5, UndisturbedReboot DEF PowerLoss
<1> QED
  BY <1>1, <1>2, <1>3, <1>4, <1>5, RequestCopies DEF Next, Handlers, Requests

LEMMA UndisturbedInit == Init => Undisturbed
<1>1. Nothing(Empty, "none")
  BY DEF Nothing, Idle, FreeBut, Empty
<1> HIDE DEF Nothing
<1> QED
  BY <1>1 DEF Init, Undisturbed, InEnqueue

(* The commands of each shape are counted.                                  *)
LEMMA ShapeCounted ==
  ASSUME NEW r \in Queues, NEW o,
         \/ Nothing(r, o)
         \/ ClearFirst(r, o) /\ r.count = 2
         \/ StoreAlone(r, o) /\ r.count = 1
  PROVE  r.count = Cardinality({i \in Slots : r.cmd[i] # "none"})
<1> DEFINE C == {i \in Slots : r.cmd[i] # "none"}
           a == r.rp
           b == After(r.rp)
<1>1. a \in Slots /\ b \in Slots /\ a # b
  BY AfterNext DEF Queues
<1>2. Cardinality({}) = 0 /\ Cardinality({a}) = 1
  BY FS_EmptySet, FS_Singleton
<1>3. Cardinality({a, b}) = 2
  <2>1. IsFiniteSet({a})
    BY FS_Singleton
  <2>2. Cardinality({a} \cup {b}) = Cardinality({a}) + 1
    <3>1. b \notin {a}
      BY <1>1
    <3> HIDE DEF a, b, C
    <3> QED
      BY <2>1, <3>1, FS_AddElement, Zenon
  <2>3. {a} \cup {b} = {a, b}
    OBVIOUS
  <2> HIDE DEF a, b, C
  <2> QED
    BY <1>2, <2>2, <2>3
<1>4. CASE Nothing(r, o)
  <2>1. C = {} /\ r.count = 0
    BY <1>4 DEF Nothing, FreeBut
  <2> QED
    BY <1>2, <2>1
<1>5. CASE ClearFirst(r, o) /\ r.count = 2
  <2>1. \A i \in Slots : r.cmd[i] # "none" <=> i = a \/ i = b
    <3>1. r.cmd[a] \in {"clear", "store"} /\ r.cmd[b] = "store"
      BY <1>5 DEF ClearFirst, Clears, Performs
    <3> QED
      BY <1>1, <1>5, <3>1 DEF ClearFirst, FreeBut
  <2>2. C = {a, b}
    BY <1>1, <2>1
  <2> QED
    BY <1>3, <1>5, <2>2
<1>6. CASE StoreAlone(r, o) /\ r.count = 1
  <2>1. r.cmd[a] = "store"
    BY <1>6 DEF StoreAlone, Stores, Performs
  <2>2. C = {a}
    BY <1>1, <1>6, <2>1 DEF StoreAlone, FreeBut
  <2> QED
    BY <1>2, <1>6, <2>2
<1> QED
  BY <1>4, <1>5, <1>6

(* The count is what the header says, of the commands pending with the      *)
(* module (pstorage.h:286-287), as long as no flash event comes in the      *)
(* middle of an enqueue: the events the module handles between the load and *)
(* the store of count++, or between the two loads of the index, are the     *)
(* only way for the two to part (pstorage.c:631-670).                       *)
THEOREM CountRight == ~EventsInEnqueue => (Spec => []CountIsPending)
<1> SUFFICES ASSUME ~EventsInEnqueue PROVE Spec => []CountIsPending
  OBVIOUS
<1>1. Init => Undisturbed
  BY UndisturbedInit
<1>2. ConfigInv /\ Undisturbed /\ [Next]_vars => Undisturbed'
  BY UndisturbedStep DEF ConfigInv
<1>3. ConfigInv /\ Undisturbed => CountIsPending
  <2> SUFFICES ASSUME ConfigInv, Undisturbed, ~InEnqueue
               PROVE  q.count = Cardinality({i \in Slots : q.cmd[i] # "none"})
    BY DEF CountIsPending
  <2>1. q \in Queues
    BY DEF ConfigInv, TypeOK, QueueTypeOK
  <2>2. \/ Nothing(q, op)
        \/ ClearFirst(q, op) /\ q.count = 2
        \/ StoreAlone(q, op) /\ q.count = 1
    BY DEF Undisturbed
  <2> QED
    BY <2>1, <2>2, ShapeCounted
<1> QED
  BY <1>1, <1>2, <1>3, ConfigInvariant, PTL DEF Spec

-----------------------------------------------------------------------------
(* The store implements the abstract configuration: every step is one of    *)
(* its steps or leaves it alone.                                            *)

Fresh ==
  /\ pc = "load" => copying = NoCopy /\ ~change
  /\ pc \in {"countTest", "changeClear"} => change
  /\ pc = "changeClear" => flash # Blank
  /\ InEnqueue /\ job = "clear" /\ up => flash # Blank

RefInv == ConfigInv /\ Fresh

Mapped == [Abstract!Next]_(Abstract!vars)

LEMMA Unseen ==
  ASSUME Memory' = Memory, flash' = flash, Owed' <=> Owed, Due' = Due
  PROVE  Mapped
BY DEF Mapped, Abstract!vars, Owed

\* What is due follows from where the main loop stands, the operation and the page.
LEMMA SameDue ==
  ASSUME flash' = flash, pc # "load", pc' # "load", EraseDue' <=> EraseDue,
         AgainDue' <=> AgainDue
  PROVE  Due' = Due
BY DEF Due

LEMMA RestartMapped ==
  ASSUME Reboot
  PROVE  Mapped /\ Fresh'
<1>1. /\ change' = FALSE /\ copying' = NoCopy /\ pc' = "load" /\ flash' = flash
  BY DEF Reboot
<1>2. ~Owed' /\ Due' = "nothing" /\ Memory' = Blank
  BY <1>1 DEF Owed, Due, Memory, NoCopy
<1>3. Abstract!Crash
  <2>1. Owed' = FALSE
    BY <1>2 DEF Owed
  <2> QED
    BY <1>1, <1>2, <2>1 DEF Abstract!Crash
<1> QED
  BY <1>1, <1>3 DEF Mapped, Abstract!Next, Fresh, InEnqueue

LEMMA LoadMapped ==
  ASSUME RefInv, Load
  PROVE  Mapped /\ Fresh'
<1>1. /\ pc = "load" /\ q' = q /\ op' = op /\ flash' = flash
      /\ change' = change /\ copying' = copying /\ copying = NoCopy /\ ~change
      /\ job' = "clear"
      /\ pc' = IF cfg' = flash THEN "loop" ELSE "enqFull"
      /\ cfg' \in Loaded(flash)
  BY DEF Load, At, Goto, RefInv, Fresh
<1>2. q.state = "idle"
  BY <1>1 DEF RefInv, ConfigInv, QueueInv, BetweenSaves, InEnqueue, Nothing, Idle
<1>3. cfg' \in Configs /\ cfg' # Blank
  BY <1>1, LoadedType, BlankAssumption DEF RefInv, ConfigInv, TypeOK, ConfigTypeOK
<1>4. Memory = Blank /\ Memory' = cfg'
  BY <1>1 DEF Memory
<1>5. Owed' = Owed /\ Owed = FALSE
  <2>1. ~Owed /\ ~Owed'
    BY <1>1 DEF Owed, NoCopy
  <2>2. Owed \in BOOLEAN /\ Owed' \in BOOLEAN
    BY DEF Owed
  <2> QED
    BY <2>1, <2>2
<1>6. Due' = IF cfg' = flash THEN "nothing" ELSE "erase"
  <2>1. CASE cfg' = flash
    <3>1. ~EraseDue' /\ ~AgainDue'
      BY <1>1, <1>2, <2>1 DEF EraseDue, AgainDue, InEnqueue
    <3> QED
      BY <1>1, <1>3, <2>1, <3>1 DEF Due
  <2>2. CASE cfg' # flash
    <3>1. EraseDue'
      BY <1>1, <2>2 DEF EraseDue, InEnqueue
    <3> QED
      BY <1>1, <2>2, <3>1 DEF Due
  <2> QED
    BY <2>1, <2>2
<1>7. Abstract!Loaded = Loaded(flash)
  <2>1. Abstract!Defaults = Defaults
    BY DEF Abstract!Defaults, Abstract!Fields, Defaults, Fields
  <2>2. \A k : Abstract!Accepted(k) = Accepted(k)
    BY DEF Abstract!Accepted, Accepted
  <2> QED
    BY <2>1, <2>2 DEF Abstract!Loaded, Loaded
<1>8. Abstract!Load
  BY <1>1, <1>4, <1>5, <1>6, <1>7 DEF Abstract!Load, Abstract!Running
<1>9. up' => flash' # Blank
  BY <1>1, <1>3 DEF Load
<1> QED
  BY <1>1, <1>8, <1>9 DEF Mapped, Abstract!Next, Fresh

(* A save begins once the one before has ended, on what is owed.            *)
LEMMA BeginMapped ==
  ASSUME RefInv, ChangeClear
  PROVE  Mapped /\ Fresh'
<1>1. /\ pc = "changeClear" /\ q' = q /\ op' = op /\ flash' = flash
      /\ cfg' = cfg /\ change' = FALSE /\ copying' = NoCopy
      /\ change /\ flash # Blank
      /\ job' = "clear" /\ pc' = "enqFull"
  BY DEF ChangeClear, At, Goto, RefInv, Fresh, Handling
<1>2. q.state = "idle"
  BY <1>1 DEF RefInv, ConfigInv, QueueInv, BetweenSaves, InEnqueue, Nothing, Idle
<1>3. Memory' = Memory /\ Memory # Blank
  BY <1>1, BlankAssumption DEF Memory, RefInv, ConfigInv, TypeOK, ConfigTypeOK
<1>4. Owed /\ ~Owed'
  BY <1>1 DEF Owed, NoCopy
<1>5. ~EraseDue /\ ~AgainDue /\ EraseDue'
  BY <1>1, <1>2 DEF EraseDue, AgainDue, InEnqueue
<1>7. Due = "nothing" /\ Due' = "erase"
  BY <1>1, <1>5 DEF Due
<1>6. Abstract!Begin
  BY <1>1, <1>3, <1>4, <1>7 DEF Abstract!Begin, Abstract!Running, Owed
<1> QED
  BY <1>1, <1>6 DEF Mapped, Abstract!Next, Fresh

LEMMA PinResetMapped ==
  ASSUME RefInv, PinReset, pc' = "pinFlag"
  PROVE  Mapped /\ Fresh'
<1>1. /\ pc = "pinReset" /\ q' = q /\ op' = op /\ flash' = flash /\ job' = job
      /\ cfg' = [cfg EXCEPT !["pin"] = Default]
  BY DEF PinReset, At, Goto
<1>2. Memory = cfg /\ Memory' = cfg'
  BY <1>1 DEF Memory
<1>3. Owed'
  BY DEF Owed
<1>4. Due' = Due
  <2>1. (EraseDue' <=> EraseDue) /\ (AgainDue' <=> AgainDue)
    BY <1>1 DEF EraseDue, AgainDue, InEnqueue
  <2> QED
    BY <1>1, <2>1, SameDue
<1>5. Abstract!Write("pin", Default)
  <2>1. Memory # Blank
    BY <1>2, BlankAssumption DEF RefInv, ConfigInv, TypeOK, ConfigTypeOK
  <2> QED
    BY <1>1, <1>2, <1>3, <1>4, <2>1 DEF Abstract!Write, Abstract!Running, Owed
<1>6. "pin" \in Abstract!Fields /\ Default \in Values \cup OutOfRange \cup {Default, Torn}
  BY DEF Abstract!Fields
<1> QED
  BY <1>1, <1>5, <1>6 DEF Mapped, Abstract!Next, Fresh, InEnqueue

LEMMA LoopMapped ==
  ASSUME RefInv,
         \/ LoopTop /\ ~Reboot
         \/ ResetMcuTask /\ ~Reboot
         \/ SaveTest \/ CountTest \/ PinFlag
         \/ PinReset /\ pc' # "pinFlag"
  PROVE  Mapped /\ Fresh'
<1>1. /\ q' = q /\ op' = op /\ flash' = flash /\ cfg' = cfg /\ job' = job
      /\ copying' = copying
      /\ pc \in {"loop", "saveTest", "countTest", "resetTask", "pinReset", "pinFlag"}
      /\ pc' \in {"loop", "saveTest", "countTest", "changeClear", "resetTask",
                  "pinReset"}
      /\ (change' <=> change \/ pc = "pinFlag")
      /\ pc' = "countTest" => change
      /\ pc' = "changeClear" => pc = "countTest" /\ q.count = 0
  BY DEF LoopTop, ResetMcuTask, SaveTest, CountTest, PinFlag, PinReset, At, Goto
<1>2. Memory' = Memory
  BY <1>1 DEF Memory
<1>3. Owed' <=> Owed
  BY <1>1 DEF Owed
<1>4. Due' = Due
  <2>1. (EraseDue' <=> EraseDue) /\ (AgainDue' <=> AgainDue)
    BY <1>1 DEF EraseDue, AgainDue, InEnqueue
  <2> QED
    BY <1>1, <2>1, SameDue
<1>5. pc' = "changeClear" => flash # Blank
  BY <1>1 DEF RefInv, ConfigInv, FlashInv, Stored, Kept, Saving, InEnqueue
<1>6. Mapped
  BY <1>1, <1>2, <1>3, <1>4, Unseen
<1> QED
  BY <1>1, <1>5, <1>6 DEF RefInv, Fresh, InEnqueue

LEMMA EnqueueMapped ==
  ASSUME RefInv, ~Reboot,
         EnqFull \/ EnqRead \/ EnqIndex \/ EnqWrite \/ EnqLoad \/ EnqStore
  PROVE  Mapped /\ Fresh'
<1>1. /\ op' = op /\ flash' = flash /\ cfg' = cfg /\ change' = change
      /\ copying' = copying /\ job' = job /\ up' = up
      /\ pc \in {"enqFull", "enqRead", "enqRp", "enqCount", "enqWrite",
                 "enqLoad", "enqStore"}
      /\ pc' \in {"enqRead", "enqRp", "enqCount", "enqWrite", "enqLoad",
                  "enqStore", "enqKick"}
  BY DEF EnqFull, EnqRead, EnqIndex, EnqWrite, EnqLoad, EnqStore, At, Goto
<1>2. q \in Queues /\ job \in {"clear", "store"}
  BY DEF RefInv, ConfigInv, TypeOK, QueueTypeOK, LoopTypeOK
<1>3. q'.state = q.state /\ q'.rp = q.rp /\ q'.written = q.written
  BY <1>2 DEF EnqFull, EnqRead, EnqIndex, EnqWrite, EnqLoad, EnqStore, Queues
<1>6. Memory' = Memory /\ (Owed' <=> Owed) /\ Fresh'
  BY <1>1 DEF Memory, Owed, RefInv, Fresh, InEnqueue
<1>7. AgainDue' <=> AgainDue
  BY <1>1, <1>3 DEF AgainDue
<1>4. CASE job = "clear"
  <2>1. EraseDue /\ EraseDue'
    BY <1>1, <1>4 DEF EraseDue, InEnqueue
  <2>2. Due' = Due
    BY <1>1, <1>7, <2>1, SameDue
  <2> QED
    BY <1>1, <1>6, <2>2, Unseen
<1>5. CASE job = "store"
  <2>1. q.state = "error" => q'.cmd[q.rp] = q.cmd[q.rp]
    <3>1. CASE EnqWrite
      <4>1. q.state = "error" => index = After(q.rp)
        BY <1>5, <3>1 DEF EnqWrite, At, RefInv, ConfigInv, QueueInv, QueueingStore,
                          InEnqueue, Looking, Nothing, Idle
      <4>2. q.rp \in Slots /\ After(q.rp) # q.rp
        BY <1>2, AfterNext DEF Queues
      <4>3. q'.cmd = [q.cmd EXCEPT ![index] = job]
        BY <1>2, <3>1 DEF EnqWrite, Queues
      <4> QED
        BY <1>2, <4>1, <4>2, <4>3 DEF Queues
    <3>2. CASE EnqFull \/ EnqRead \/ EnqIndex \/ EnqLoad \/ EnqStore
      BY <1>1, <1>2, <3>2 DEF EnqFull, EnqRead, EnqIndex, EnqLoad, EnqStore, Queues
    <3> QED
      BY <3>1, <3>2
  <2>2. EraseDue' <=> EraseDue
    BY <1>1, <1>3, <1>5, <2>1 DEF EraseDue, InEnqueue
  <2>3. Due' = Due
    BY <1>1, <1>7, <2>2, SameDue
  <2> QED
    BY <1>1, <1>6, <2>3, Unseen
<1> QED
  BY <1>2, <1>4, <1>5

LEMMA KickMapped ==
  ASSUME RefInv, EnqKick
  PROVE  Mapped /\ Fresh'
<1>1. /\ flash' = flash /\ cfg' = cfg /\ change' = change /\ copying' = copying
      /\ pc = "enqKick"
      /\ IF q.state = "idle" /\ q'.state = "store"
         THEN pc' = "enqWritten" /\ job' = job
         ELSE /\ job' = IF job = "clear" THEN "store" ELSE "clear"
              /\ pc' = IF job = "clear" THEN "enqFull"
                       ELSE IF up THEN "resetTask" ELSE "loop"
  BY DEF EnqKick, Return, At, Goto
<1>2. q \in Queues /\ job \in {"clear", "store"} /\ q.rp \in Slots
  BY DEF RefInv, ConfigInv, TypeOK, QueueTypeOK, LoopTypeOK, Queues
<1>3. CASE job = "clear"
  <2>1. Idle(q, op) /\ q.cmd[q.rp] = "clear"
    BY <1>1, <1>3 DEF RefInv, ConfigInv, QueueInv, QueueingClear, InEnqueue, Looking
  <2>2. q' = [q EXCEPT !.state = "erase"] /\ op' = "erase"
    BY <1>2, <2>1, KickStarts
  <2>3. q'.state = "erase" /\ q.state = "idle"
    BY <1>2, <2>1, <2>2 DEF Queues, Idle
  <2>4. pc' = "enqFull" /\ job' = "store"
    BY <1>1, <1>3, <2>3
  <2>5. EraseDue /\ EraseDue' /\ ~AgainDue /\ ~AgainDue'
    BY <1>1, <1>3, <2>2, <2>3 DEF EraseDue, AgainDue, InEnqueue
  <2>6. Due' = Due
    BY <1>1, <2>4, <2>5, SameDue
  <2>7. Memory' = Memory /\ (Owed' <=> Owed) /\ Fresh'
    BY <1>1, <2>4 DEF Memory, Owed, RefInv, Fresh
  <2> QED
    BY <1>1, <2>6, <2>7, Unseen
<1>4. CASE job = "store"
  <2>1. ~(InEnqueue' /\ job' = "clear") /\ ~(InEnqueue /\ job = "clear")
        /\ pc' \in {"enqWritten", "resetTask", "loop"}
    BY <1>1, <1>4 DEF InEnqueue
  <2>2. Memory' = Memory /\ (Owed' <=> Owed) /\ Fresh'
    BY <1>1, <2>1 DEF Memory, Owed, RefInv, Fresh
  <2>3. (EraseDue' <=> EraseDue) /\ (AgainDue' <=> AgainDue)
    <3>1. CASE q.state # "idle"
      <4>1. q' = q /\ op' = op
        BY <3>1 DEF EnqKick, Becomes, Storage
      <4> QED
        BY <1>1, <2>1, <4>1 DEF EraseDue, AgainDue
    <3>2. CASE q.state = "idle"
      <4>1. op = "none"
        <5>1. op # "none" => q.state \in {"erase", "store"}
          BY Performed DEF RefInv, ConfigInv
        <5> QED
          BY <3>2, <5>1
      <4>2. q.cmd[q.rp] # "clear"
        <5>1. \/ StoreAt(q, op, index) /\ index \in Slots
              \/ StoreAt(q, op, q.rp)
              \/ Nothing(q, op)
          BY <1>1, <1>4, <3>2
          DEF RefInv, ConfigInv, QueueInv, QueueingStore, InEnqueue, ClearFirst,
              StoreAlone, Clears, Stores, Performs
        <5> QED
          BY <1>2, <5>1 DEF StoreAt, Nothing, FreeBut
      <4>3. Idle(q, op)
        BY <3>2, <4>1 DEF Idle
      <4>4. \/ q' = q
            \/ q' = [q EXCEPT !.state = "store"] /\ q.cmd[q.rp] # "none"
        BY <1>2, <4>2, <4>3, KickStarts
      <4>5. q'.state \in {"idle", "store"}
        BY <1>2, <3>2, <4>4 DEF Queues
      <4>6. ~EraseDue /\ ~EraseDue'
        BY <1>1, <2>1, <3>2, <4>5 DEF EraseDue
      <4>7. q'.state = "store" => flash = Blank
        <5>1. q'.state = "store" => ~Nothing(q, op)
          BY <1>2, <3>2, <4>4 DEF Nothing, FreeBut
        <5>2. q'.state = "store" => q.count # 0
          BY <1>1, <1>4, <4>3, <5>1
          DEF RefInv, ConfigInv, QueueInv, QueueingStore, InEnqueue, ClearFirst,
              StoreAlone, Clears, Stores, Performs, Idle
        <5> QED
          BY <1>1, <1>4, <3>2, <5>2 DEF RefInv, ConfigInv, FlashInv, Erased, InEnqueue
      <4>8. ~AgainDue /\ ~AgainDue'
        BY <1>1, <3>2, <4>7 DEF AgainDue
      <4> QED
        BY <4>6, <4>8
    <3> QED
      BY <3>1, <3>2
  <2>4. Due' = Due
    BY <1>1, <2>1, <2>3, SameDue
  <2> QED
    BY <1>1, <2>2, <2>4, Unseen
<1> QED
  BY <1>2, <1>3, <1>4

(* Once the bytes are counted, a store that has been performed is not        *)
(* performed again.                                                         *)
LEMMA WrittenMapped ==
  ASSUME RefInv, EnqWritten
  PROVE  Mapped /\ Fresh'
<1>1. /\ op' = op /\ q'.state = q.state
      /\ q'.rp = q.rp /\ q'.cmd = q.cmd
      /\ pc = "enqWritten" /\ job = "store" /\ job' = "clear"
      /\ pc' \in {"resetTask", "loop"}
      /\ q.state = "store" => q'.written
  BY WrittenQueue DEF RefInv, ConfigInv
<1>2. flash' = flash /\ cfg' = cfg /\ change' = change /\ copying' = copying
  BY DEF EnqWritten
<1>3. Memory' = Memory /\ (Owed' <=> Owed) /\ Fresh'
  BY <1>1, <1>2 DEF Memory, Owed, RefInv, Fresh, InEnqueue
<1>4. EraseDue' <=> EraseDue
  BY <1>1 DEF EraseDue, InEnqueue
<1>5. AgainDue' => AgainDue
  BY <1>1, <1>2 DEF AgainDue
<1>6. CASE AgainDue /\ ~AgainDue'
  <2>1. ~EraseDue /\ ~EraseDue' /\ flash # Blank
    BY <1>1, <1>4, <1>6 DEF AgainDue, EraseDue
  <2>2. Due = "again" /\ Due' = "nothing"
    BY <1>1, <1>2, <1>6, <2>1 DEF Due
  <2>3. Owed' = Owed
    BY <1>3 DEF Owed
  <2>4. Abstract!Again
    BY <1>2, <1>3, <2>2, <2>3 DEF Abstract!Again
  <2> QED
    BY <1>3, <2>4 DEF Mapped, Abstract!Next
<1>7. CASE AgainDue' <=> AgainDue
  <2>1. Due' = Due
    BY <1>1, <1>2, <1>4, <1>7, SameDue
  <2> QED
    BY <1>2, <1>3, <2>1, Unseen
<1> QED
  BY <1>5, <1>6, <1>7

(* A request writes a field twice: half, then whole.                        *)
LEMMA HandlerMapped ==
  ASSUME RefInv,
         \/ \E f \in Fields, v \in Values \cup OutOfRange : StartCopy(f, v)
         \/ EndCopy
         \/ BootRequest
  PROVE  Mapped /\ Fresh'
<1>1. /\ q' = q /\ op' = op /\ pc' = pc /\ job' = job /\ flash' = flash
      /\ up' = up /\ (change => change')
  <2>1. q' = q /\ op' = op /\ pc' = pc /\ job' = job /\ flash' = flash /\ up' = up
    BY DEF StartCopy, EndCopy, BootRequest, mainVars
  <2>2. change => change'
    BY Zenon DEF StartCopy, EndCopy, BootRequest
  <2> QED
    BY <2>1, <2>2
<1>3. pc # "load"
  BY DEF RefInv, ConfigInv, FlashInv, Fresh, StartCopy, EndCopy, BootRequest, Handling
<1>2. Due' = Due
  <2>1. (EraseDue' <=> EraseDue) /\ (AgainDue' <=> AgainDue)
    BY <1>1 DEF EraseDue, AgainDue, InEnqueue
  <2> QED
    BY <1>1, <1>3, <2>1, SameDue
<1>4. Memory = cfg /\ Memory' = cfg' /\ Memory # Blank
  BY <1>1, <1>3, BlankAssumption DEF Memory, RefInv, ConfigInv, TypeOK, ConfigTypeOK
<1>5. Fresh'
  BY <1>1, <1>3 DEF RefInv, Fresh, InEnqueue
<1>6. Abstract!Fields = Fields
  BY DEF Abstract!Fields, Fields
<1>7. ASSUME NEW f \in Fields, NEW v \in Values \cup OutOfRange, StartCopy(f, v)
      PROVE  Mapped
  <2>1. copying = NoCopy /\ copying'.field = f /\ change' = change
    BY <1>7 DEF StartCopy, Handling
  <2>2. cfg' = [cfg EXCEPT ![f] = Torn]
    BY <1>7 DEF StartCopy
  <2>3. Owed' <=> Owed \/ f # "key"
    BY <1>1, <2>1 DEF Owed, NoCopy, Fields
  <2>4. Abstract!Write(f, Torn)
    BY <1>1, <1>2, <1>4, <2>2, <2>3 DEF Abstract!Write, Abstract!Running, Owed
  <2> QED
    BY <1>6, <2>4 DEF Mapped, Abstract!Next
<1>8. ASSUME EndCopy
      PROVE  Mapped
  <2>1. copying.field \in Fields /\ copying.value \in Values \cup OutOfRange
    BY <1>8 DEF EndCopy, Handling, RefInv, ConfigInv, TypeOK, ConfigTypeOK
  <2>2. cfg' = [cfg EXCEPT ![copying.field] = copying.value] /\ copying' = NoCopy
    BY <1>8 DEF EndCopy
  <2>3. change' <=> change \/ copying.field # "key"
    BY <1>8, Zenon DEF EndCopy
  <2>4. Owed' <=> Owed \/ copying.field # "key"
    BY <1>1, <2>1, <2>2, <2>3 DEF Owed, NoCopy, Fields
  <2>5. Abstract!Write(copying.field, copying.value)
    BY <1>1, <1>2, <1>4, <2>2, <2>4 DEF Abstract!Write, Abstract!Running, Owed
  <2> QED
    BY <1>6, <2>1, <2>5 DEF Mapped, Abstract!Next
<1>9. ASSUME BootRequest
      PROVE  Mapped
  BY <1>1, <1>2, <1>4, <1>9, Unseen DEF BootRequest, Owed
<1> QED
  BY <1>5, <1>7, <1>8, <1>9

LEMMA FlashMapped ==
  ASSUME RefInv, Flash
  PROVE  Mapped /\ Fresh'
<1>1. /\ q' = q /\ pc' = pc /\ job' = job /\ cfg' = cfg /\ change' = change
      /\ copying' = copying /\ up' = up
      /\ op \in {"erase", "write"}
  BY DEF Flash, Perform, Fail, mainVars
<1>2. /\ op = "erase" => q.state = "erase"
      /\ op = "write" => q.state = "store"
      /\ InEnqueue => job = "store"
  BY <1>1, Performed, WhenRunning DEF RefInv, ConfigInv
<1>3. pc \notin {"load", "changeClear"}
  BY <1>1 DEF RefInv, ConfigInv, QueueInv, BetweenSaves, InEnqueue, Nothing, Idle
<1>4. Memory = cfg /\ Memory' = cfg /\ Owed' = Owed /\ Fresh'
  <2>1. Owed' <=> Owed
    BY <1>1 DEF Owed
  <2>2. Owed' = Owed
    BY <2>1 DEF Owed
  <2>3. ~(InEnqueue' /\ job' = "clear")
    BY <1>1, <1>2 DEF InEnqueue
  <2> QED
    BY <1>1, <1>3, <2>2, <2>3 DEF Memory, RefInv, Fresh
<1>8. ~(InEnqueue /\ job = "clear") /\ ~(InEnqueue' /\ job' = "clear")
  BY <1>1, <1>2 DEF InEnqueue
<1>5. CASE Perform /\ op = "erase"
  <2>1. flash' = Blank /\ op' = "done"
    BY <1>5 DEF Perform
  <2>2. EraseDue /\ ~EraseDue'
    BY <1>1, <1>2, <1>5, <1>8, <2>1 DEF EraseDue
  <2>3. Due = "erase" /\ Due' = "program"
    BY <1>1, <1>3, <2>1, <2>2 DEF Due
  <2>4. Abstract!Erase
    BY <1>4, <2>1, <2>3 DEF Abstract!Erase
  <2> QED
    BY <1>4, <2>4 DEF Mapped, Abstract!Next
<1>6. CASE Perform /\ op = "write"
  <2>1. flash' = Programmed(flash) /\ op' = "done"
    BY <1>6 DEF Perform
  <2>2. ~EraseDue /\ ~EraseDue'
    BY <1>1, <1>2, <1>6, <1>8 DEF EraseDue
  <2>3. cfg \in Configs
    BY DEF RefInv, ConfigInv, TypeOK, ConfigTypeOK
  <2>4. CASE flash = Blank
    <3>1. flash' = cfg /\ flash' # Blank
      BY <2>1, <2>3, <2>4, BlankAssumption DEF Programmed
    <3>2. Due = "program" /\ Due' \in {"nothing", "again"}
      BY <1>1, <1>3, <2>2, <2>4, <3>1 DEF Due
    <3>3. Abstract!Program
      BY <1>4, <3>1, <3>2 DEF Abstract!Program
    <3> QED
      BY <1>4, <3>3 DEF Mapped, Abstract!Next
  <2>5. CASE flash # Blank
    <3>1. q.written
      BY <1>2, <1>6, <2>5 DEF RefInv, ConfigInv, FlashInv, Twice
    <3>2. flash' = [f \in Fields |-> IF flash[f] = cfg[f] THEN cfg[f] ELSE Torn]
      BY <2>1, <2>5 DEF Programmed
    <3>3. flash' # Blank
      <4>1. flash' \in Configs
        BY <2>3, <3>2 DEF Configs
      <4> QED
        BY <4>1, BlankAssumption
    <3>4. AgainDue /\ ~AgainDue'
      BY <1>1, <1>2, <1>6, <2>1, <2>5, <3>1 DEF AgainDue
    <3>5. Due = "again" /\ Due' = "nothing"
      BY <1>1, <1>3, <2>2, <2>5, <3>3, <3>4 DEF Due
    <3>6. Abstract!Fields = Fields
      BY DEF Abstract!Fields, Fields
    <3>7. Abstract!Again
      BY <1>4, <3>2, <3>5, <3>6 DEF Abstract!Again
    <3> QED
      BY <1>4, <3>7 DEF Mapped, Abstract!Next
  <2> QED
    BY <2>4, <2>5
<1>7. CASE Fail
  <2>1. op' = "failed" /\ flash' = flash
    BY <1>7 DEF Fail
  <2>2. EraseDue' <=> EraseDue
    BY <1>1, <1>8, <2>1 DEF EraseDue
  <2>3. AgainDue' <=> AgainDue
    BY <1>1, <2>1 DEF AgainDue
  <2>4. Due' = Due
    BY <1>1, <1>3, <2>1, <2>2, <2>3, SameDue
  <2> QED
    BY <1>4, <2>1, <2>4, Unseen
<1> QED
  BY <1>5, <1>6, <1>7, <1>1 DEF Flash

LEMMA EventMapped ==
  ASSUME RefInv, FlashEvent
  PROVE  Mapped /\ Fresh'
<1>1. /\ pc' = pc /\ job' = job /\ flash' = flash /\ cfg' = cfg
      /\ change' = change /\ copying' = copying /\ up' = up
      /\ op \in {"done", "failed"}
  BY DEF FlashEvent, mainVars
<1>2. ~(InEnqueue /\ job = "clear") /\ ~(InEnqueue' /\ job' = "clear")
  <2>1. InEnqueue => job = "store"
    BY <1>1, WhenRunning DEF RefInv, ConfigInv
  <2> QED
    BY <1>1, <2>1 DEF InEnqueue
<1>3. q.state \in {"erase", "store"} /\ q \in Queues
  BY <1>1, Performed DEF RefInv, ConfigInv, TypeOK, QueueTypeOK
<1>4. pc # "load"
  BY <1>1 DEF RefInv, ConfigInv, QueueInv, BetweenSaves, InEnqueue, Nothing, Idle
<1>7. Memory' = Memory /\ Owed' = Owed /\ Fresh'
  <2>1. Owed' <=> Owed
    BY <1>1 DEF Owed
  <2>2. Owed' = Owed
    BY <2>1 DEF Owed
  <2> QED
    BY <1>1, <1>2, <2>2 DEF Memory, RefInv, Fresh
<1>8. \/ ClearAlone(q, op) /\ q.count = 1 /\ q.state = "erase"
      \/ ClearFirst(q, op) /\ q.count \in {1, 2} /\ q.state = "erase"
      \/ StoreAlone(q, op) /\ q.count \in {1, 2} /\ q.state = "store"
  BY <1>1, WhenRunning, Performed DEF RefInv, ConfigInv
<1>5. CASE op = "done"
  <2>1. /\ q'.state \in {"idle", "store"}
        /\ q.state = "store" /\ q.written => q'.state = "idle"
        /\ q.state = "store" /\ ~q.written => q'.state = "store" /\ op' = "write"
    <3>1. CASE q.state = "erase"
      <4>1. \/ Nothing(q', op')
            \/ StoreAt(q', op', After(q.rp))
            \/ q'.state = "store"
        BY <1>5, <1>8, <3>1, DoneEvent DEF RefInv, ConfigInv
      <4> QED
        BY <3>1, <4>1 DEF Nothing, StoreAt, Idle
    <3>2. CASE q.state = "store"
      <4>1. StoreAlone(q, op) /\ q.count \in {1, 2}
        BY <1>8, <3>2
      <4>2. /\ q.written => Nothing(q', op') \/ Idle(q', op')
            /\ ~q.written => q'.state = "store" /\ op' = "write"
        BY <1>5, <4>1, DoneEvent DEF RefInv, ConfigInv
      <4> QED
        BY <4>2 DEF Nothing, Idle
    <3> QED
      BY <1>3, <3>1, <3>2
  <2>2. ~EraseDue /\ ~EraseDue'
    BY <1>2, <1>3, <1>5, <2>1 DEF EraseDue
  <2>3. AgainDue' <=> AgainDue
    <3>1. CASE q.state = "erase"
      <4>1. flash = Blank
        BY <1>5, <3>1 DEF RefInv, ConfigInv, FlashInv, Erased
      <4> QED
        BY <1>1, <4>1 DEF AgainDue
    <3>2. CASE q.state = "store"
      BY <1>1, <1>5, <2>1, <3>2 DEF AgainDue
    <3> QED
      BY <1>3, <3>1, <3>2
  <2>4. Due' = Due
    BY <1>1, <1>4, <2>2, <2>3, SameDue
  <2> QED
    BY <1>1, <1>7, <2>4, Unseen
<1>6. CASE op = "failed"
  <2>1. /\ q'.rp = q.rp /\ q'.cmd = q.cmd
        /\ \/ /\ q'.state = q.state
              /\ op' = IF q.state = "erase" THEN "erase" ELSE "write"
           \/ q'.state = "error" /\ op' = "none"
    BY <1>6, FailedEvent DEF RefInv, ConfigInv
  <2>2. q.state = "erase" <=> q.cmd[q.rp] = "clear"
    BY <1>8 DEF ClearAlone, ClearFirst, StoreAlone, Clears, Stores, Performs
  <2>3. EraseDue' <=> EraseDue
    BY <1>2, <1>3, <1>6, <2>1, <2>2 DEF EraseDue
  <2>4. CASE q'.state = "error" /\ q.state = "store" /\ flash # Blank
    <3>1. AgainDue /\ ~AgainDue' /\ ~EraseDue
      BY <1>2, <1>6, <2>4 DEF AgainDue, EraseDue
    <3>2. Due = "again" /\ Due' = "nothing"
      BY <1>1, <1>4, <2>3, <2>4, <3>1 DEF Due
    <3>3. Abstract!Again
      BY <1>1, <1>7, <3>2 DEF Abstract!Again
    <3> QED
      BY <1>7, <3>3 DEF Mapped, Abstract!Next
  <2>5. CASE ~(q'.state = "error" /\ q.state = "store" /\ flash # Blank)
    <3>1. AgainDue' <=> AgainDue
      BY <1>1, <1>3, <1>6, <2>1, <2>5 DEF AgainDue
    <3>2. Due' = Due
      BY <1>1, <1>4, <2>3, <3>1, SameDue
    <3> QED
      BY <1>1, <1>7, <3>2, Unseen
  <2> QED
    BY <2>4, <2>5
<1> QED
  BY <1>1, <1>5, <1>6

LEMMA RefStep ==
  ASSUME RefInv, [Next]_vars
  PROVE  Mapped /\ RefInv'
<1>1. ConfigInv'
  BY ConfigInvStep DEF RefInv
<1>2. CASE Reboot
  BY <1>1, <1>2, RestartMapped DEF RefInv
<1>3. CASE Main /\ ~Reboot
  <2>1. CASE Load
    BY <1>1, <2>1, LoadMapped DEF RefInv
  <2>2. CASE ChangeClear
    BY <1>1, <2>2, BeginMapped DEF RefInv
  <2>3. CASE PinReset
    BY <1>1, <2>3, PinResetMapped, LoopMapped DEF RefInv
  <2>4. CASE LoopTop \/ ResetMcuTask \/ SaveTest \/ CountTest \/ PinFlag
    BY <1>1, <1>3, <2>4, LoopMapped DEF RefInv
  <2>5. CASE EnqFull \/ EnqRead \/ EnqIndex \/ EnqWrite \/ EnqLoad \/ EnqStore
    BY <1>1, <1>3, <2>5, EnqueueMapped DEF RefInv
  <2>6. CASE EnqKick
    BY <1>1, <2>6, KickMapped DEF RefInv
  <2>7. CASE EnqWritten
    BY <1>1, <2>7, WrittenMapped DEF RefInv
  <2> QED
    BY <1>3, <2>1, <2>2, <2>3, <2>4, <2>5, <2>6, <2>7 DEF Main
<1>4. CASE \/ \E f \in Fields, v \in Values \cup OutOfRange : StartCopy(f, v)
           \/ EndCopy
           \/ BootRequest
  BY <1>1, <1>4, HandlerMapped DEF RefInv
<1>5. CASE FlashEvent
  BY <1>1, <1>5, EventMapped DEF RefInv
<1>6. CASE Flash
  BY <1>1, <1>6, FlashMapped DEF RefInv
<1>7. CASE PowerLoss
  BY <1>2, <1>7 DEF PowerLoss
<1>8. CASE UNCHANGED vars
  <2>1. UNCHANGED <<cfg, change, copying, flash, q, op, up, pc, job>>
    BY <1>8 DEF vars, mainVars
  <2>2. Mapped
    BY <2>1, Unseen DEF Memory, Owed, EraseDue, AgainDue, Due, InEnqueue
  <2>3. Fresh'
    BY <2>1 DEF RefInv, Fresh, InEnqueue
  <2> QED
    BY <1>1, <2>2, <2>3 DEF RefInv
<1>9. CASE Requests
  BY <1>4, <1>9, RequestCopies
<1> QED
  BY <1>2, <1>3, <1>4, <1>5, <1>6, <1>7, <1>8, <1>9 DEF Next, Handlers, Requests

LEMMA RefInit == Init => RefInv /\ Abstract!Init
<1> SUFFICES ASSUME Init PROVE RefInv /\ Abstract!Init
  OBVIOUS
<1>1. ConfigInv
  BY ConfigInvInit
<1>2. Fresh
  BY DEF Init, Fresh, InEnqueue
<1>3. Memory = Blank /\ ~Owed /\ Due = "nothing" /\ flash = Blank
  BY DEF Init, Memory, Owed, Due, NoCopy
<1>4. Owed = FALSE
  BY <1>3 DEF Owed
<1> QED
  BY <1>1, <1>2, <1>3, <1>4 DEF RefInv, Abstract!Init

(* The configuration is saved as SavedConfig says, for every set of values, *)
(* queue and number of retries, events inside an enqueue included: no mark  *)
(* disappears without a save that begins after the change, a save begins    *)
(* only after the one before, and its page is programmed when it is erased  *)
(* and at most once more (system_config.c:63-77, 98-168,                    *)
(* pstorage.c:349-373, 631-670, 1018-1043).                                 *)
THEOREM StoreImplementsSavedConfig == Spec => ImplementsSavedConfig
<1>1. RefInv /\ [Next]_vars => RefInv' /\ [Abstract!Next]_(Abstract!vars)
  BY RefStep DEF Mapped
<1> QED
  BY <1>1, RefInit, PTL DEF Spec, ImplementsSavedConfig, Abstract!Spec

(* While no event comes inside cmd_queue_enqueue, the page is blank only     *)
(* while the store of a save is being queued or the module is at work or    *)
(* has given up (system_config.c:63-77, pstorage.c:1089-1109).              *)
THEOREM BlankOnlyDuringSave == ~EventsInEnqueue => (Spec => []BlankOnlyWhileSaving)
<1> SUFFICES ASSUME ~EventsInEnqueue
             PROVE  Spec => []BlankOnlyWhileSaving
  OBVIOUS
<1> DEFINE Inv == RefInv /\ Undisturbed
<1>1. Init => Inv
  BY RefInit, UndisturbedInit
<1>2. Inv /\ [Next]_vars => Inv'
  <2> SUFFICES ASSUME Inv, [Next]_vars PROVE Inv'
    OBVIOUS
  <2>1. RefInv'
    BY RefStep
  <2>2. Undisturbed'
    BY UndisturbedStep DEF RefInv, ConfigInv
  <2> QED
    BY <2>1, <2>2
<1>3. Inv => BlankOnlyWhileSaving
  <2> SUFFICES ASSUME Inv, flash = Blank, up, ~(InEnqueue /\ job = "store")
               PROVE  q.state \in {"erase", "store", "error"}
    BY DEF BlankOnlyWhileSaving
  <2>1. ~InEnqueue /\ pc # "changeClear" /\ pc # "load"
    BY DEF RefInv, Fresh, ConfigInv, FlashInv, TypeOK, LoopTypeOK
  <2>2. ~(q.count = 0)
    BY <2>1 DEF RefInv, ConfigInv, FlashInv, Stored, Kept, Saving
  <2>3. ClearFirst(q, op) \/ StoreAlone(q, op)
    BY <2>1, <2>2 DEF Undisturbed, Nothing
  <2> QED
    BY <2>3 DEF ClearFirst, StoreAlone, Clears, Stores, Performs
<1> QED
  BY <1>1, <1>2, <1>3, PTL DEF Spec

(* What follows from SavedConfig alone.                                     *)
AbstractInv ==
  /\ Memory \in Configs \cup {Blank}
  /\ flash \in Configs \cup {Blank}
  /\ Memory = Blank => Due = "nothing"
  /\ Abstract!Agrees

LEMMA AgreesStep ==
  ASSUME AbstractInv, [Abstract!Next]_(Abstract!vars)
  PROVE  AbstractInv'
<1>1. Abstract!Defaults = Defaults /\ Defaults \in Configs /\ Abstract!Fields = Fields
  BY DEF Abstract!Defaults, Abstract!Fields, Defaults, Configs, Fields
<1>2. /\ Memory \in Configs \cup {Blank} /\ flash \in Configs \cup {Blank}
      /\ Memory = Blank => Due = "nothing"
      /\ Abstract!Agrees
  BY DEF AbstractInv
<1>3. ASSUME NEW f \in Fields, NEW v \in Values \cup OutOfRange \cup {Default, Torn},
             Abstract!Write(f, v)
      PROVE  AbstractInv'
  <2>1. /\ Memory # Blank
        /\ Memory' = [Memory EXCEPT ![f] = v] /\ flash' = flash
        /\ Owed' <=> Owed \/ f # "key"
        /\ Due' = Due
    BY <1>3 DEF Abstract!Write, Abstract!Running, Owed
  <2>2. Memory' \in Configs
    BY <1>2, <2>1 DEF Configs
  <2>3. \A g \in Fields \ {f} : Memory'[g] = Memory[g]
    BY <1>2, <2>1 DEF Configs
  <2>4. Abstract!Agrees'
    BY <1>2, <2>1, <2>3 DEF Abstract!Agrees, Abstract!Running, Fields
  <2> QED
    BY <1>2, <2>1, <2>2, <2>4, BlankAssumption DEF AbstractInv
<1>4. CASE Abstract!Begin \/ Abstract!Erase
  BY <1>2, <1>4 DEF Abstract!Begin, Abstract!Erase, Abstract!Agrees,
                    Abstract!Running, AbstractInv
<1>5. CASE Abstract!Program
  <2>1. flash' = Memory /\ Memory' = Memory /\ Due = "program"
    BY <1>5 DEF Abstract!Program
  <2>2. Memory \in Configs
    BY <1>2, <2>1
  <2> QED
    BY <2>1, <2>2, BlankAssumption DEF Abstract!Agrees, AbstractInv
<1>8. CASE Abstract!Again
  <2>1. /\ Memory' = Memory /\ Owed' = Owed /\ Due = "again" /\ Due' = "nothing"
        /\ flash' \in {flash, [f \in Fields |-> IF flash[f] = Memory[f] THEN Memory[f]
                                                ELSE Torn]}
    BY <1>1, <1>8 DEF Abstract!Again
  <2>2. Memory \in Configs
    BY <1>2, <2>1
  <2>3. CASE flash' = flash
    BY <1>2, <2>1, <2>2, <2>3 DEF Abstract!Agrees, Abstract!Running, AbstractInv
  <2>4. CASE flash' = [f \in Fields |-> IF flash[f] = Memory[f] THEN Memory[f] ELSE Torn]
    <3>1. flash' \in Configs
      BY <2>2, <2>4 DEF Configs
    <3>2. \A f \in {"pin", "name"} : flash[f] = Memory[f] => flash'[f] = Memory'[f]
      BY <2>1, <2>4 DEF Fields
    <3> QED
      BY <1>2, <2>1, <2>2, <3>1, <3>2, BlankAssumption
      DEF Abstract!Agrees, Abstract!Running, AbstractInv
  <2> QED
    BY <2>1, <2>3, <2>4
<1>6. CASE Abstract!Crash
  BY <1>2, <1>6 DEF Abstract!Crash, Abstract!Agrees, Abstract!Running, AbstractInv
<1>9. CASE Abstract!Load
  <2>1. /\ flash' = flash
        /\ Due' = IF Memory' = flash THEN "nothing" ELSE "erase"
        /\ Memory' \in Loaded(flash)
    <3>1. \A k : Abstract!Accepted(k) = Accepted(k)
      BY DEF Abstract!Accepted, Accepted
    <3>2. Abstract!Loaded = Loaded(flash)
      BY <1>1, <3>1 DEF Abstract!Loaded, Loaded
    <3> QED
      BY <1>9, <3>2 DEF Abstract!Load
  <2>2. Memory' \in Configs
    BY <1>2, <2>1, LoadedType
  <2> QED
    BY <1>2, <2>1, <2>2, BlankAssumption DEF Abstract!Agrees, AbstractInv
<1>7. CASE UNCHANGED Abstract!vars
  BY <1>2, <1>7 DEF Abstract!vars, Abstract!Agrees, Abstract!Running, AbstractInv
<1> QED
  BY <1>1, <1>3, <1>4, <1>5, <1>6, <1>7, <1>8, <1>9 DEF Abstract!Next

(* Whatever is saved as SavedConfig says keeps the PIN and the name: with   *)
(* nothing owed and no save under way, flash holds those in use.            *)
THEOREM SavedConfigAgrees == ImplementsSavedConfig => []Abstract!Agrees
<1>1. Abstract!Init => AbstractInv
  BY DEF Abstract!Init, Abstract!Agrees, Abstract!Running, AbstractInv
<1>2. AbstractInv /\ [Abstract!Next]_(Abstract!vars) => AbstractInv'
  BY AgreesStep
<1>3. AbstractInv => Abstract!Agrees
  BY DEF AbstractInv
<1> QED
  BY <1>1, <1>2, <1>3, PTL DEF ImplementsSavedConfig, Abstract!Spec

(* Hence a restart of the firmware finds the PIN and the name in use, unless *)
(* one is still owed to flash or the restart cuts a save                    *)
(* (system_config.c:63-77, 98-168).                                         *)
THEOREM RestartFindsConfig == Spec => []Abstract!Agrees
BY StoreImplementsSavedConfig, SavedConfigAgrees, PTL
=============================================================================
