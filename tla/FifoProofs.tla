----------------------------- MODULE FifoProofs -----------------------------
(***************************************************************************)
(* Theorems about Fifo for every depth and every set of words.             *)
(*                                                                         *)
(* The inductive invariant is TypeOK together with PointersAgree: neither  *)
(* is inductive alone.  That count stays below 2*Depth needs count <=      *)
(* Depth, and that the pointers stay Depth-bounded distances apart needs   *)
(* the precomputed successors to be successors.                            *)
(***************************************************************************)
EXTENDS Fifo, Sequences, SequenceTheorems, TLAPS

FifoInv == TypeOK /\ PointersAgree

\* Reset and power-up both give an empty FIFO that satisfies the invariant.
LEMMA FifoInit == Init => FifoInv
BY DepthAssumption DEF Init, FifoInv, TypeOK, PointersAgree, Inc, Addr

\* The casez of count_add counts exactly the writes and reads that happen:
\* the one fact that ties the independent count to the pointers.
LEMMA CountFollowsPointers ==
    ASSUME FifoInv, NEW push \in BOOLEAN, NEW pull \in BOOLEAN
    PROVE  /\ count_add(push, pull) = (IF wen(push, pull) THEN 1 ELSE 0)
                                      - (IF ren(pull) THEN 1 ELSE 0)
           /\ CountWrap(count + count_add(push, pull))
                = count + count_add(push, pull)
           /\ wen(push, pull) /\ ~ren(pull) => count < Depth
           /\ ren(pull) => count > 0
<1>. USE DepthAssumption DEF FifoInv, TypeOK, PointersAgree
<1>. empty \in BOOLEAN /\ full \in BOOLEAN /\ ~(empty /\ full)
  BY DEF empty, full
<1>1. CASE push /\ pull
  BY <1>1 DEF count_add, wen, ren, empty, full, CountWrap
<1>2. CASE push /\ ~pull
  BY <1>2 DEF count_add, wen, ren, empty, full, CountWrap
<1>3. CASE ~push /\ pull
  BY <1>3 DEF count_add, wen, ren, empty, full, CountWrap
<1>4. CASE ~push /\ ~pull
  BY <1>4 DEF count_add, wen, ren, empty, full, CountWrap
<1>. QED
  BY <1>1, <1>2, <1>3, <1>4

\* One rising edge preserves the invariant, whatever the inputs.
LEMMA FifoClock ==
    ASSUME FifoInv, NEW push \in BOOLEAN, NEW pull \in BOOLEAN,
           NEW din \in Data, Clock(push, pull, din)
    PROVE  FifoInv'
<1>. DEFINE w == wen(push, pull)
            r == ren(pull)
<1>1. /\ count' = count + (IF w THEN 1 ELSE 0) - (IF r THEN 1 ELSE 0)
      /\ count' \in 0 .. Depth
  BY CountFollowsPointers, DepthAssumption
     DEF Clock, FifoInv, TypeOK, PointersAgree
<1>2. /\ w_ptr' = (IF w THEN next_w ELSE w_ptr)
      /\ next_w' = (IF w THEN Inc(next_w) ELSE next_w)
      /\ r_ptr' = (IF r THEN next_r ELSE r_ptr)
      /\ next_r' = (IF r THEN Inc(next_r) ELSE next_r)
      /\ mem' \in [Addr -> Data]
  BY DEF Clock, Write, Read, FifoInv, TypeOK
<1>. HIDE DEF w, r
<1>3. /\ next_w \in Addr /\ next_r \in Addr /\ w_ptr \in Addr /\ r_ptr \in Addr
      /\ next_w = Inc(w_ptr) /\ next_r = Inc(r_ptr)
      /\ count \in 0 .. Depth
      /\ w_ptr = IF r_ptr + count < Depth THEN r_ptr + count
                                          ELSE r_ptr + count - Depth
  BY DepthAssumption DEF FifoInv, TypeOK, PointersAgree
<1>4. TypeOK'
  BY <1>1, <1>2, <1>3, DepthAssumption DEF TypeOK, Inc, Addr
<1>5. next_w' = Inc(w_ptr') /\ next_r' = Inc(r_ptr')
  BY <1>2, <1>3
<1>6. w_ptr' = IF r_ptr' + count' < Depth THEN r_ptr' + count'
                                          ELSE r_ptr' + count' - Depth
  BY <1>1, <1>2, <1>3, DepthAssumption DEF Inc, Addr
<1>. QED
  BY <1>1, <1>4, <1>5, <1>6 DEF FifoInv, PointersAgree, Inc

\* Every step of the FIFO preserves the invariant.
LEMMA FifoNext == FifoInv /\ [Next]_vars => FifoInv'
<1>. SUFFICES ASSUME FifoInv, [Next]_vars
              PROVE  FifoInv'
  OBVIOUS
<1>1. CASE ResetState
  BY <1>1, DepthAssumption
     DEF FifoInv, TypeOK, PointersAgree, ResetState, Inc, Addr
<1>2. CASE \E push, pull \in BOOLEAN, din \in Data : Clock(push, pull, din)
  BY <1>2, FifoClock
<1>3. CASE UNCHANGED vars
  BY <1>3 DEF FifoInv, TypeOK, PointersAgree, vars
<1>. QED
  BY <1>1, <1>2, <1>3 DEF Next

\* fifo.v never leaves the widths of its registers.
THEOREM FifoTypeCorrect == Spec => []TypeOK
<1>1. Spec => []FifoInv
  BY FifoInit, FifoNext, PTL DEF Spec
<1>2. FifoInv => TypeOK
  BY DEF FifoInv
<1>. QED
  BY <1>1, <1>2, PTL

\* The pointers, their precomputed successors and the independent count of
\* fifo.v agree at every edge, for every depth.
THEOREM FifoPointersAgree == Spec => []PointersAgree
<1>1. Spec => []FifoInv
  BY FifoInit, FifoNext, PTL DEF Spec
<1>2. FifoInv => PointersAgree
  BY DEF FifoInv
<1>. QED
  BY <1>1, <1>2, PTL
-----------------------------------------------------------------------------
(* The FIFO implements the queue of the scoreboard.                         *)

\* The contents are a sequence of count words.
ContentsOK == /\ Contents \in Seq(Data)
              /\ Len(Contents) = count
              /\ \A i \in 1 .. count : Contents[i] = mem[Slot(i - 1)]

LEMMA ContentsSeq == FifoInv => ContentsOK
<1>. SUFFICES ASSUME FifoInv
              PROVE  ContentsOK
  OBVIOUS
<1>. USE DepthAssumption DEF FifoInv, TypeOK, PointersAgree
<1>1. ASSUME NEW i \in 1 .. count
      PROVE  mem[Slot(i - 1)] \in Data
  BY <1>1 DEF Slot, Addr
<1>2. Contents \in [1 .. count -> Data] /\ count \in Nat
  BY <1>1 DEF Contents
<1>3. Contents \in Seq(Data)
  BY <1>2
<1>4. Len(Contents) = count
  BY <1>2, <1>3 DEF Contents
<1>. QED
  BY <1>3, <1>4 DEF Contents, ContentsOK

\* An edge of the FIFO is a step of the queue with the same inputs.
LEMMA ClockRefines ==
    ASSUME FifoInv, NEW push \in BOOLEAN, NEW pull \in BOOLEAN,
           NEW din \in Data, Clock(push, pull, din)
    PROVE  Queue!Clock(push, pull, din)
<1>. DEFINE w == wen(push, pull)
            r == ren(pull)
            pulled == Queue!AfterPull(Contents, pull)
            shift == IF r THEN 1 ELSE 0
<1>. USE DepthAssumption
<1>0. FifoInv'
  BY FifoClock
<1>1. /\ count' = count + (IF w THEN 1 ELSE 0) - shift
      /\ count' \in 0 .. Depth
      /\ w /\ ~r => count < Depth
      /\ r => count > 0
      /\ count \in 0 .. Depth
      /\ w_ptr \in Addr /\ r_ptr \in Addr /\ mem \in [Addr -> Data]
      /\ w_ptr = IF r_ptr + count < Depth THEN r_ptr + count
                                          ELSE r_ptr + count - Depth
  BY CountFollowsPointers DEF Clock, FifoInv, TypeOK, PointersAgree
<1>2. /\ r_ptr' = (IF r THEN Inc(r_ptr) ELSE r_ptr)
      /\ mem' = (IF w THEN [mem EXCEPT ![w_ptr] = din] ELSE mem)
  BY DEF Clock, Write, Read, FifoInv, PointersAgree
<1>3. r <=> pull /\ count > 0
  BY <1>1 DEF ren, empty
<1>4. w <=> push /\ count - shift < Depth
  BY <1>1, <1>3 DEF wen, full
<1>. HIDE DEF w, r
<1>5. /\ pulled \in Seq(Data)
      /\ Len(pulled) = count - shift
      /\ \A i \in 1 .. count - shift : pulled[i] = mem[Slot(i - 1 + shift)]
  <2>1. CASE r
    <3>1. Contents # << >> /\ pulled = Tail(Contents)
      BY <2>1, <1>3, <1>1, ContentsSeq DEF Queue!AfterPull, ContentsOK
    <3>2. /\ Tail(Contents) \in Seq(Data)
          /\ Len(Tail(Contents)) = count - 1
          /\ \A i \in 1 .. count - 1 : Tail(Contents)[i] = Contents[i + 1]
      BY <3>1, ContentsSeq, <1>1 DEF ContentsOK
    <3>3. ASSUME NEW i \in 1 .. count - 1
          PROVE  Contents[i + 1] = mem[Slot(i)]
      <4>1. i + 1 \in 1 .. count /\ i + 1 - 1 = i
        BY <3>3, <1>1
      <4>. QED
        BY <4>1, ContentsSeq DEF ContentsOK
    <3>4. ASSUME NEW i \in 1 .. count - 1
          PROVE  pulled[i] = mem[Slot(i - 1 + 1)]
      <4>1. i - 1 + 1 = i
        BY <3>4
      <4>. QED
        BY <4>1, <3>1, <3>2, <3>3
    <3>. QED
      BY <3>1, <3>2, <3>4, <2>1
  <2>2. CASE ~r
    <3>1. pulled = Contents
      BY <2>2, <1>3, <1>1, ContentsSeq DEF Queue!AfterPull, ContentsOK
    <3>2. ASSUME NEW i \in 1 .. count
          PROVE  Contents[i] = mem[Slot(i - 1 + 0)]
      <4>1. i - 1 + 0 = i - 1
        BY <3>2
      <4>. QED
        BY <4>1, ContentsSeq DEF ContentsOK
    <3>. QED
      BY <3>1, <3>2, ContentsSeq, <2>2, <1>1 DEF ContentsOK
  <2>. QED
    BY <2>1, <2>2
<1>. HIDE DEF pulled
<1>6. \A i \in 0 .. Depth - 1 : i + shift < Depth =>
         Slot(i)' = Slot(i + shift) /\ Slot(i + shift) \in Addr
  BY <1>1, <1>2 DEF Slot, Inc, Addr
<1>7. \A i \in 1 .. count - shift : Slot(i - 1)' = Slot(i - 1 + shift)
                                    /\ Slot(i - 1 + shift) \in Addr
  <2>1. ASSUME NEW i \in 1 .. count - shift
        PROVE  i - 1 \in 0 .. Depth - 1 /\ i - 1 + shift < Depth
    BY <2>1, <1>1
  <2>. QED
    BY <2>1, <1>6
<1>8. ASSUME NEW i \in 1 .. count - shift, w
      PROVE  Slot(i - 1 + shift) # w_ptr
  BY <1>8, <1>1 DEF Slot, Addr
<1>9. \A i \in 1 .. count - shift : mem'[Slot(i - 1)'] = pulled[i]
  BY <1>1, <1>2, <1>5, <1>7, <1>8
<1>10. CASE w
  <2>1. Queue!AfterPush(pulled, push, din) = Append(pulled, din)
    BY <1>10, <1>4, <1>5 DEF Queue!AfterPush
  <2>2. count' = count - shift + 1
    BY <1>10, <1>1
  <2>3. ASSUME NEW i \in 1 .. count', i = count'
        PROVE  mem'[Slot(i - 1)'] = din
    <3>1. Slot(i - 1)' = w_ptr
      BY <2>2, <2>3, <1>1, <1>2 DEF Slot, Inc, Addr
    <3>. QED
      BY <3>1, <1>10, <1>1, <1>2
  <2>4. /\ Append(pulled, din) \in Seq(Data)
        /\ Len(Append(pulled, din)) = count'
        /\ \A i \in 1 .. count' : Append(pulled, din)[i] =
              IF i = count' THEN din ELSE pulled[i]
    BY <2>2, <1>5, <1>1
  <2>5. \A i \in 1 .. count' : Contents'[i] = Append(pulled, din)[i]
    <3>1. ASSUME NEW i \in 1 .. count'
          PROVE  mem'[Slot(i - 1)'] = Append(pulled, din)[i]
      <4>1. CASE i = count'
        BY <4>1, <2>3, <2>4
      <4>2. CASE i # count'
        BY <4>2, <2>2, <2>4, <1>9, <1>1
      <4>. QED
        BY <4>1, <4>2
    <3>. QED
      BY <3>1, <1>1 DEF Contents
  <2>6. Contents' \in Seq(Data) /\ Len(Contents') = count'
    <3>1. ContentsOK'
      BY <1>0, ContentsSeq, PTL
    <3>. QED
      BY <3>1 DEF ContentsOK
  <2>7. Contents' = Append(pulled, din)
    BY <2>4, <2>5, <2>6, SeqEqual
  <2>. QED
    BY <2>1, <2>7 DEF Queue!Clock, pulled
<1>11. CASE ~w
  <2>1. Queue!AfterPush(pulled, push, din) = pulled
    BY <1>11, <1>4, <1>5 DEF Queue!AfterPush
  <2>2. count' = count - shift
    BY <1>11, <1>1
  <2>3. \A i \in 1 .. count' : Contents'[i] = pulled[i]
    BY <2>2, <1>9, <1>1 DEF Contents
  <2>4. Contents' \in Seq(Data) /\ Len(Contents') = count'
    <3>1. ContentsOK'
      BY <1>0, ContentsSeq, PTL
    <3>. QED
      BY <3>1 DEF ContentsOK
  <2>5. Contents' = pulled
    BY <2>2, <2>3, <2>4, <1>5, SeqEqual
  <2>. QED
    BY <2>1, <2>5 DEF Queue!Clock, pulled
<1>. QED
  BY <1>10, <1>11

\* Every step of the FIFO is a step of the queue or leaves it alone.
LEMMA NextRefines == FifoInv /\ [Next]_vars => [Queue!Next]_Contents
<1>. SUFFICES ASSUME FifoInv, [Next]_vars
              PROVE  [Queue!Next]_Contents
  OBVIOUS
<1>1. CASE ResetState
  <2>1. count' = 0 /\ FifoInv'
    BY <1>1, FifoNext DEF ResetState
  <2>2. ContentsOK'
    BY <2>1, ContentsSeq, PTL
  <2>3. Contents' = << >>
    BY <2>1, <2>2 DEF ContentsOK
  <2>. QED
    BY <2>3 DEF Queue!Next, Queue!Flush
<1>2. CASE \E push, pull \in BOOLEAN, din \in Data : Clock(push, pull, din)
  BY <1>2, ClockRefines DEF Queue!Next
<1>3. CASE UNCHANGED vars
  BY <1>3 DEF vars, Contents, Slot
<1>. QED
  BY <1>1, <1>2, <1>3 DEF Next

\* For every depth and every set of words, fifo.v is the bounded queue of
\* the scoreboard: first in first out, nothing lost, duplicated or invented.
THEOREM FifoImplementsQueue == Spec => ImplementsQueue
<1>1. Init => Queue!Init
  <2>1. ASSUME Init
        PROVE  Contents = << >>
    <3>1. count = 0 /\ ContentsOK
      BY <2>1, FifoInit, ContentsSeq DEF Init
    <3>. QED
      BY <3>1 DEF ContentsOK
  <2>. QED
    BY <2>1 DEF Queue!Init
<1>2. Spec => []FifoInv
  BY FifoInit, FifoNext, PTL DEF Spec
<1>. QED
  BY <1>1, <1>2, NextRefines, PTL DEF Spec, Queue!Spec, ImplementsQueue

\* The head of a non-empty FIFO changes only when it is consumed: a push never
\* reaches the slot that dout shows, even when the FIFO is full.
THEOREM FifoHeadStable == Spec => HeadStable
<1>1. ASSUME FifoInv, [Next]_vars
      PROVE  [(~empty /\ r_ptr' = r_ptr /\ count' # 0) => dout' = dout]_vars
  <2>. SUFFICES ASSUME ~empty, r_ptr' = r_ptr, count' # 0
                PROVE  dout' = dout
    OBVIOUS
  <2>1. CASE ResetState
    BY <2>1 DEF ResetState
  <2>2. ASSUME NEW push \in BOOLEAN, NEW pull \in BOOLEAN, NEW din \in Data,
               Clock(push, pull, din)
        PROVE  mem'[r_ptr] = mem[r_ptr]
    <3>1. ~ren(pull)
      BY <1>1, <2>2, DepthAssumption
         DEF Clock, Read, FifoInv, TypeOK, PointersAgree, Inc, Addr
    <3>2. wen(push, pull) => count < Depth
      BY <3>1, <1>1, CountFollowsPointers
    <3>3. wen(push, pull) => w_ptr # r_ptr
      BY <3>2, <1>1, DepthAssumption
         DEF empty, FifoInv, TypeOK, PointersAgree, Addr
    <3>. QED
      BY <3>3, <1>1, <2>2 DEF Clock, Write, FifoInv, TypeOK
  <2>3. CASE UNCHANGED vars
    BY <2>3 DEF vars, dout
  <2>. QED
    BY <1>1, <2>1, <2>2, <2>3 DEF Next, dout
<1>2. Spec => []FifoInv
  BY FifoInit, FifoNext, PTL DEF Spec
<1>. QED
  BY <1>1, <1>2, PTL DEF Spec, HeadStable
=============================================================================
