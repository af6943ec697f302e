---------------------------- MODULE RingBufProofs ----------------------------
(***************************************************************************)
(* Proofs about RingBuf, for every set of bytes and every size of buffer:  *)
(* the circular buffer implements the bounded first-in first-out queue.    *)
(***************************************************************************)
EXTENDS RingBuf, SequenceTheorems, TLAPS

(* Both indices stay within the cells, for every size (ringbuf.c:34-72).    *)
THEOREM RingTypeCorrect == Spec => []TypeOK
<1> USE SizeAssumption
<1>1. Init => TypeOK
  BY DEF Init, TypeOK, Cells
<1>2. TypeOK /\ [Next]_vars => TypeOK'
  <2> SUFFICES ASSUME TypeOK, [Next]_vars PROVE TypeOK'
    OBVIOUS
  <2> USE DEF TypeOK, Cells
  <2>1. CASE \E c \in Data : Put(c)
    BY <2>1 DEF Put, After
  <2>2. CASE Get
    BY <2>2 DEF Get, After
  <2>3. CASE GetFill
    BY <2>3 DEF GetFill
  <2>4. CASE UNCHANGED vars
    BY <2>4 DEF vars
  <2> QED
    BY <2>1, <2>2, <2>3, <2>4 DEF Next
<1> QED
  BY <1>1, <1>2, PTL DEF Spec

(* The cells from t on, n of them, are a sequence of n bytes.               *)
LEMMA CellsType ==
  ASSUME NEW p \in [Cells -> Data], NEW t \in Cells, NEW n \in 0..(Size - 1)
  PROVE  /\ [i \in 1..n |-> p[Cell(t + i - 1)]] \in Seq(Data)
         /\ Len([i \in 1..n |-> p[Cell(t + i - 1)]]) = n
<1>1. \A i \in 1..n : Cell(t + i - 1) \in Cells
  BY SizeAssumption DEF Cells, Cell
<1>2. \A i \in 1..n : p[Cell(t + i - 1)] \in Data
  BY <1>1
<1>3. n \in Nat
  BY SizeAssumption
<1> QED
  BY <1>2, <1>3

LEMMA FillType ==
  ASSUME TypeOK
  PROVE  Fill \in 0..(Size - 1)
BY SizeAssumption DEF TypeOK, Cells, Fill

(* What a buffer holds: a sequence of bytes, shorter than the buffer.       *)
LEMMA ContentsType ==
  ASSUME TypeOK
  PROVE  /\ Fill \in 0..(Size - 1)
         /\ Contents \in Seq(Data)
         /\ Len(Contents) = Fill
         /\ \A i \in 1..Fill : Contents[i] = pt[Cell(tail + i - 1)]
BY FillType, CellsType DEF TypeOK, Contents

LEMMA NextContentsType ==
  ASSUME TypeOK', Fill' \in 0..(Size - 1)
  PROVE  /\ Contents' \in Seq(Data)
         /\ Len(Contents') = Fill'
         /\ \A i \in 1..Fill' : Contents'[i] = pt'[Cell(tail' + i - 1)]
<1>1. Contents' = [i \in 1..Fill' |-> pt'[Cell(tail' + i - 1)]]
  BY DEF Contents, Cell
<1> QED
  BY <1>1, CellsType DEF TypeOK

(* The buffer is empty when the indices meet, full when the next put would  *)
(* make them meet.                                                          *)
LEMMA EmptyAndFull ==
  ASSUME TypeOK
  PROVE  /\ Fill = 0 <=> tail = head
         /\ Fill = Size - 1 <=> After(head) = tail
BY SizeAssumption DEF TypeOK, Cells, Fill, After

(* RINGBUF_Put appends, or refuses when the buffer is full.                 *)
LEMMA PutStep ==
  ASSUME TypeOK, TypeOK', NEW c \in Data, Put(c)
  PROVE  Abstract!Put(c)
<1> USE SizeAssumption
<1>1. CASE After(head) = tail
  <2>1. last' = <<"put", -1>> /\ UNCHANGED <<head, tail, pt>>
    BY <1>1 DEF Put
  <2>2. Contents' = Contents
    BY <2>1 DEF Contents, Fill, Cell
  <2>3. Len(Contents) = Size - 1
    BY <1>1, EmptyAndFull, ContentsType
  <2> QED
    BY <2>1, <2>2, <2>3 DEF Abstract!Put
<1>2. CASE After(head) # tail
  <2>1. /\ pt' = [pt EXCEPT ![head] = c]
        /\ head' = After(head)
        /\ last' = <<"put", 0>>
        /\ tail' = tail
    BY <1>2 DEF Put
  <2>2. Len(Contents) < Size - 1
    BY <1>2, EmptyAndFull, ContentsType
  <2>3. Fill' = Fill + 1
    BY <1>2, <2>1 DEF TypeOK, Cells, Fill, After
  <2>4. /\ Contents' \in Seq(Data)
        /\ Len(Contents') = Fill + 1
        /\ \A i \in 1..(Fill + 1) : Contents'[i] = pt'[Cell(tail + i - 1)]
    <3>1. Fill' \in 0..(Size - 1)
      BY <2>2, <2>3, ContentsType
    <3> QED
      BY <2>1, <2>3, <3>1, NextContentsType
  <2>5. Cell(tail + Fill) = head
    BY DEF TypeOK, Cells, Fill, Cell
  <2>6. ASSUME NEW i \in 1..Fill
        PROVE  Contents'[i] = Contents[i]
    <3>1. Cell(tail + i - 1) # head /\ Cell(tail + i - 1) \in Cells
      BY ContentsType DEF TypeOK, Cells, Fill, Cell
    <3>2. Contents'[i] = pt'[Cell(tail + i - 1)]
      BY <2>4, ContentsType
    <3>3. pt'[Cell(tail + i - 1)] = pt[Cell(tail + i - 1)]
      BY <2>1, <3>1 DEF TypeOK
    <3> QED
      BY <3>2, <3>3, ContentsType
  <2>7. Contents'[Fill + 1] = c
    <3>1. Contents'[Fill + 1] = pt'[Cell(tail + Fill)]
      BY <2>4, ContentsType DEF TypeOK, Cells
    <3> QED
      BY <2>1, <2>5, <3>1 DEF TypeOK
  <2>8. Contents' = Append(Contents, c)
    <3> DEFINE new == Append(Contents, c)
    <3>1. /\ new \in Seq(Data)
          /\ Len(new) = Fill + 1
          /\ \A i \in 1..Fill : new[i] = Contents[i]
          /\ new[Fill + 1] = c
      BY ContentsType, AppendProperties
    <3>2. \A i \in 1..(Fill + 1) : Contents'[i] = new[i]
      BY <2>6, <2>7, <3>1, ContentsType
    <3> HIDE DEF new
    <3>3. /\ Contents' \in Seq(Data) /\ new \in Seq(Data)
          /\ Len(Contents') = Len(new)
          /\ \A i \in 1..Len(Contents') : Contents'[i] = new[i]
      BY <2>4, <3>1, <3>2
    <3>4. Contents' = new
      BY <3>3, SeqEqual
    <3> QED
      BY <3>4 DEF new
  <2> QED
    BY <2>1, <2>2, <2>8 DEF Abstract!Put
<1> QED
  BY <1>1, <1>2

(* RINGBUF_Get takes the oldest byte, or says that there is none.           *)
LEMMA GetStep ==
  ASSUME TypeOK, TypeOK', Get
  PROVE  Abstract!Get
<1> USE SizeAssumption
<1>1. CASE tail = head
  <2>1. last' = <<"get", -1>> /\ UNCHANGED <<head, tail, pt>>
    BY <1>1 DEF Get
  <2>2. Contents' = Contents
    BY <2>1 DEF Contents, Fill, Cell
  <2>3. Contents = <<>>
    BY <1>1, EmptyAndFull, ContentsType, EmptySeq
  <2> QED
    BY <2>1, <2>2, <2>3 DEF Abstract!Get
<1>2. CASE tail # head
  <2>1. /\ tail' = After(tail)
        /\ last' = <<"get", 0, pt[tail]>>
        /\ head' = head
        /\ pt' = pt
    BY <1>2 DEF Get
  <2>2. Fill' = Fill - 1 /\ Fill > 0
    BY <1>2, <2>1 DEF TypeOK, Cells, Fill, After
  <2>3. Contents # <<>> /\ Head(Contents) = pt[tail]
    <3>1. Contents[1] = pt[Cell(tail)]
      BY <2>2, ContentsType DEF TypeOK, Cells
    <3>2. Cell(tail) = tail
      BY DEF TypeOK, Cells, Cell
    <3> QED
      BY <2>2, <3>1, <3>2, ContentsType, EmptySeq
  <2>4. /\ Contents' \in Seq(Data)
        /\ Len(Contents') = Fill - 1
        /\ \A i \in 1..(Fill - 1) : Contents'[i] = pt[Cell(After(tail) + i - 1)]
    <3>1. Fill' \in 0..(Size - 1)
      BY <2>2, ContentsType
    <3> QED
      BY <2>1, <2>2, <3>1, NextContentsType
  <2>5. ASSUME NEW i \in 1..(Fill - 1)
        PROVE  Contents'[i] = Contents[i + 1]
    <3>1. Cell(After(tail) + i - 1) = Cell(tail + i)
      BY ContentsType DEF TypeOK, Cells, Cell, After
    <3>2. Contents[i + 1] = pt[Cell(tail + i)]
      <4>1. i + 1 \in 1..Fill /\ tail + (i + 1) - 1 = tail + i
        BY ContentsType DEF TypeOK, Cells
      <4> QED
        BY <4>1, ContentsType
    <3> QED
      BY <2>4, <3>1, <3>2
  <2>6. Contents' = Tail(Contents)
    <3> DEFINE rest == Tail(Contents)
    <3>1. /\ rest \in Seq(Data)
          /\ Len(rest) = Fill - 1
          /\ \A i \in 1..(Fill - 1) : rest[i] = Contents[i + 1]
      BY <2>3, ContentsType, HeadTailProperties
    <3>2. \A i \in 1..(Fill - 1) : Contents'[i] = rest[i]
      BY <2>5, <3>1
    <3> HIDE DEF rest
    <3>3. /\ Contents' \in Seq(Data) /\ rest \in Seq(Data)
          /\ Len(Contents') = Len(rest)
          /\ \A i \in 1..Len(Contents') : Contents'[i] = rest[i]
      BY <2>4, <3>1, <3>2
    <3>4. Contents' = rest
      BY <3>3, SeqEqual
    <3> QED
      BY <3>4 DEF rest
  <2> QED
    BY <2>1, <2>3, <2>6 DEF Abstract!Get
<1> QED
  BY <1>1, <1>2

LEMMA GetFillStep ==
  ASSUME TypeOK, GetFill
  PROVE  Abstract!GetFill
<1>1. last' = <<"fill", Fill>> /\ UNCHANGED <<head, tail, pt>>
  BY DEF GetFill
<1>2. Contents' = Contents
  BY <1>1 DEF Contents, Fill, Cell
<1> QED
  BY <1>1, <1>2, ContentsType DEF Abstract!GetFill

(* The circular buffer is a bounded queue of Size - 1 bytes: nothing put is *)
(* lost, repeated or reordered, and every call returns what the queue's     *)
(* would (lib/ringbuf.c).                                                   *)
THEOREM RingImplementsFifo == Spec => ImplementsFifo
<1>1. Init => Abstract!Init
  <2> SUFFICES ASSUME Init PROVE Abstract!Init
    OBVIOUS
  <2>1. TypeOK
    BY SizeAssumption DEF Init, TypeOK, Cells
  <2>2. Fill = 0
    BY <2>1, EmptyAndFull DEF Init
  <2> QED
    BY <2>1, <2>2, ContentsType, EmptySeq DEF Init, Abstract!Init
<1>2. TypeOK /\ TypeOK' /\ [Next]_vars => [Abstract!Next]_(Abstract!vars)
  <2> SUFFICES ASSUME TypeOK, TypeOK', [Next]_vars
               PROVE  [Abstract!Next]_(Abstract!vars)
    OBVIOUS
  <2>1. CASE \E c \in Data : Put(c)
    BY <2>1, PutStep DEF Abstract!Next
  <2>2. CASE Get
    BY <2>2, GetStep DEF Abstract!Next
  <2>3. CASE GetFill
    BY <2>3, GetFillStep DEF Abstract!Next
  <2>4. CASE UNCHANGED vars
    BY <2>4 DEF vars, Abstract!vars, Contents, Fill, Cell
  <2> QED
    BY <2>1, <2>2, <2>3, <2>4 DEF Next
<1> QED
  BY <1>1, <1>2, RingTypeCorrect, PTL DEF Spec, ImplementsFifo, Abstract!Spec
=============================================================================
