------------------------------- MODULE RingBuf -------------------------------
(***************************************************************************)
(* lib/ringbuf.c: the circular byte buffer of the transmit path.  Head is  *)
(* the next cell to write, tail the next to read; they are equal when the  *)
(* buffer is empty, so that one cell always stays free and a buffer of     *)
(* Size cells holds Size - 1 bytes.  Its one user, the main loop, never    *)
(* runs two of its operations at once: each is one step.                   *)
(***************************************************************************)
EXTENDS Integers, Sequences

CONSTANTS
  Data,   \* the bytes
  Size    \* cells of the buffer (64)

\* RINGBUF_Init refuses fewer than two cells.
ASSUME SizeAssumption == Size \in Nat /\ Size >= 2

Cells == 0..(Size - 1)

VARIABLES
  head,
  tail,
  pt,    \* the cells
  last   \* the call made last and what it returned

vars == <<head, tail, pt, last>>

-----------------------------------------------------------------------------
\* RINGBUF_Init; the cells hold whatever they held.
Init ==
  /\ head = 0
  /\ tail = 0
  /\ pt \in [Cells -> Data]
  /\ last = <<"init">>

\* Faulty variant of After: the wrap comes one cell late.
AfterLate(i) == IF i + 1 > Size THEN 0 ELSE i + 1

\* The cell after cell i.
After(i) == IF i + 1 >= Size THEN 0 ELSE i + 1

\* Faulty variant of Put: the last free cell is used, and a full buffer looks
\* empty.
PutLastCell(c) ==
  /\ pt' = [pt EXCEPT ![head] = c]
  /\ head' = After(head)
  /\ last' = <<"put", 0>>
  /\ UNCHANGED tail

\* RINGBUF_Put.
Put(c) ==
  \/ /\ After(head) = tail
     /\ last' = <<"put", -1>>
     /\ UNCHANGED <<head, tail, pt>>
  \/ /\ After(head) # tail
     /\ pt' = [pt EXCEPT ![head] = c]
     /\ head' = After(head)
     /\ last' = <<"put", 0>>
     /\ UNCHANGED tail

\* RINGBUF_Get.
Get ==
  \/ /\ tail = head
     /\ last' = <<"get", -1>>
     /\ UNCHANGED <<head, tail, pt>>
  \/ /\ tail # head
     /\ tail' = After(tail)
     /\ last' = <<"get", 0, pt[tail]>>
     /\ UNCHANGED <<head, pt>>

\* RINGBUF_GetFill.
Fill == IF head >= tail THEN head - tail ELSE Size - tail + head

GetFill ==
  /\ last' = <<"fill", Fill>>
  /\ UNCHANGED <<head, tail, pt>>

Next == (\E c \in Data : Put(c)) \/ Get \/ GetFill

Spec == Init /\ [][Next]_vars

-----------------------------------------------------------------------------
(* Properties.                                                             *)

\* Both indices stay within the cells, on every call sequence.
TypeOK ==
  /\ head \in Cells
  /\ tail \in Cells
  /\ pt \in [Cells -> Data]

\* What the buffer holds, oldest first.
Cell(i) == IF i >= Size THEN i - Size ELSE i
Contents == [i \in 1..Fill |-> pt[Cell(tail + i - 1)]]

Abstract == INSTANCE Fifo WITH queue <- Contents, Capacity <- Size - 1

\* The circular buffer implements the bounded queue: no byte is lost,
\* repeated or reordered by the wrap-around, empty and full are told apart,
\* and every call returns what it should (ringbuf.c:34-84).
ImplementsFifo == Abstract!Spec
=============================================================================
