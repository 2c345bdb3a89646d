--------------------------- MODULE UartLoopProofs ---------------------------
(***************************************************************************)
(* The loopback is faithful, for every set of characters and of line       *)
(* settings, every depth of the FIFO and every oversampling rate.  The     *)
(* inductive invariant says where the receiver is when the transmitter is  *)
(* at a tick of a bit, and what it has got of the character.               *)
(***************************************************************************)
EXTENDS UartLoop, UartRxProofs, SequenceTheorems

\* The latch of the FSM shows what follows the present state.
LatchInv == next_tx_fsm = TxLatch(tx_fsm, count_bits, lcr, tx_start(thr), tx_fsm)

\* The shift register holds what is left of the head of the FIFO.
TxInv ==
    /\ TxTypeOK /\ LatchInv
    /\ OnLine => thr # << >>
    /\ tx_fsm = "DATA" =>
          /\ count_bits <= lcr.wls + 4
          /\ \A i \in 0 .. 7 - count_bits : tsr[i] = Head(thr)[i + count_bits]
    /\ tx_fsm = "PARITY" => lcr.pen /\ count_bits = 0
    /\ tx_fsm = "STOP" => count_bits <= lcr.stb

\* A bit of a frame is on the line that the receiver takes part in.
Sending == tx_fsm \in {"START", "DATA", "PARITY"} \/ (tx_fsm = "STOP" /\ count_bits = 0)

\* In the first tick of a bit the receiver is in the last tick of the one
\* before; from then on it is at the same bit, one tick behind.
PhaseInv ==
    /\ count_ticks # 0 /\ Sending =>
          /\ rx_fsm = tx_fsm /\ rx_ticks = count_ticks - 1
          /\ tx_fsm = "DATA" => rx_bits = count_bits
    /\ count_ticks # 0 /\ ~Sending => rx_fsm = "IDLE"
    /\ count_ticks = 0 =>
          /\ rx_ticks = TICKS - 1
          /\ tx_fsm = "START" \/ ~Sending => rx_fsm \in {"IDLE", "STOP"}
          /\ tx_fsm = "DATA" => IF count_bits = 0 THEN rx_fsm = "START"
                                ELSE rx_fsm = "DATA" /\ rx_bits = count_bits - 1
          /\ tx_fsm = "PARITY" \/ (tx_fsm = "STOP" /\ Sending /\ ~lcr.pen) =>
                rx_fsm = "DATA" /\ rx_bits = lcr.wls + 4
          /\ tx_fsm = "STOP" /\ Sending /\ lcr.pen => rx_fsm = "PARITY"

QueueInv == IF Judging THEN expected # << >> /\ Tail(expected) = thr
                       ELSE expected = thr

\* The receiver has a part of the word that is to come back next.
Receiving == rx_fsm # "IDLE" /\ ~(rx_fsm = "STOP" /\ rx_ticks >= TICK_SAMPLE_D)

GotInv == Receiving =>
    /\ RxGot(Head(expected))
    /\ rx_ticks > TICK_SAMPLE_A => s0 = RxBit(Head(expected))
    /\ rx_ticks > TICK_SAMPLE_B => s1 = RxBit(Head(expected))

LoopInv == /\ TxInv /\ RxTypeOK /\ PhaseInv /\ QueueInv /\ GotInv
           /\ expected \in Seq(Chars)
           /\ faulty = FALSE

-----------------------------------------------------------------------------
(* The transmitter *)

LEMMA LineTyped ==
    ASSUME TxTypeOK
    PROVE  /\ lcr \in LineCtrl /\ lcr.wls \in 0 .. 3 /\ lcr.stb \in Bit
           /\ lcr.pen \in BOOLEAN /\ WordLen(lcr) = lcr.wls + 5
  BY FrameAssumption, LcrFacts DEF TxTypeOK

\* The tick counter counts, and only in the half stop bit it skips.
LEMMA TicksStep ==
    ASSUME TxTypeOK
    PROVE  /\ TicksNext \in 0 .. TICKS - 1
           /\ tx_fsm # "STOP_HALF" =>
                 TicksNext = IF count_ticks = TICKS - 1 THEN 0 ELSE count_ticks + 1
           /\ count_ticks = 0 => TicksNext # 0
           /\ tx_fsm = "STOP_HALF" => TicksNext # 1
<1>1. TICKS \in {8, 16, 32} /\ count_ticks \in 0 .. TICKS - 1
  BY FrameAssumption DEF TxTypeOK
<1>2. CASE tx_fsm = "STOP_HALF" /\ count_ticks < TICKS \div 2
  <2>1. TicksNext = (count_ticks + TICKS \div 2 + 1) % TICKS
    BY <1>1, <1>2 DEF TicksNext
  <2>. QED BY <1>1, <1>2, <2>1
<1>3. CASE ~(tx_fsm = "STOP_HALF" /\ count_ticks < TICKS \div 2)
  <2>1. TicksNext = (count_ticks + 1) % TICKS
    BY <1>1, <1>3 DEF TicksNext
  <2>. QED BY <1>1, <1>3, <2>1
<1>. QED BY <1>2, <1>3

LEMMA LatchTyped ==
    ASSUME TxTypeOK, LatchFollows, tx_fsm' \in TxStates
    PROVE  next_tx_fsm' \in TxStates
<1>1. \A f, old \in TxStates : \A bits, l, start :
         TxLatch(f, bits, l, start, old) \in TxStates
  BY DEF TxStates, TxLatch, StartOrIdle
<1>. QED BY <1>1 DEF LatchFollows, TxTypeOK

\* Within a bit the latch follows the FIFO, and so still shows what follows.
LEMMA LatchKept ==
    ASSUME TxTypeOK, LatchInv, LatchFollows,
           UNCHANGED <<tx_fsm, count_bits, lcr>>
    PROVE  LatchInv'
  BY DEF LatchInv, LatchFollows, TxLatch, TxTypeOK, TxStates

\* The FIFO after a write.
LEMMA QueueAppend ==
    ASSUME NEW q \in Seq(Chars), NEW c \in Chars
    PROVE  /\ Append(q, c) \in Seq(Chars) /\ Append(q, c) # << >>
           /\ Len(Append(q, c)) = Len(q) + 1
           /\ q # << >> => /\ Head(Append(q, c)) = Head(q)
                           /\ Tail(Append(q, c)) = Append(Tail(q), c)
  BY AppendProperties, HeadTailAppend

LEMMA QueueTail ==
    ASSUME NEW q \in Seq(Chars), q # << >>
    PROVE  /\ Head(q) \in Chars /\ Tail(q) \in Seq(Chars)
           /\ Len(Tail(q)) = Len(q) - 1
           /\ Len(q) \in Nat /\ Len(q) >= 1
  BY HeadTailProperties, LenProperties, EmptySeq

\* A tick within a bit changes nothing but the tick counter and, in the second
\* tick of the stop bit, the FIFO.
LEMMA TxWithin ==
    ASSUME TxInv, TxTick, count_ticks' # 0
    PROVE  /\ UNCHANGED <<tx_fsm, count_bits, tsr, lcr>>
           /\ thr' = IF tx_fsm = "STOP" /\ count_bits = 0 /\ count_ticks = 0
                     THEN Tail(thr) ELSE thr
           /\ TxInv'
<1>1. count_ticks' = TicksNext /\ UNCHANGED <<tx_fsm, count_bits, tsr, lcr, tx_junk>>
  BY DEF TxTick
<1>2. TxTypeOK /\ count_ticks \in 0 .. TICKS - 1 /\ TICKS \in Nat /\ TICKS >= 8
  BY TickFacts DEF TxInv, TxTypeOK
<1>3. tx_ready' <=> tx_fsm = "STOP" /\ count_bits = 0 /\ count_ticks = 0
  BY <1>1, <1>2, TicksStep DEF tx_ready
<1>4. thr' = IF tx_fsm = "STOP" /\ count_bits = 0 /\ count_ticks = 0
             THEN Tail(thr) ELSE thr
  <2>1. tx_fsm = "STOP" /\ count_bits = 0 /\ count_ticks = 0 => thr # << >>
    BY DEF TxInv, OnLine
  <2>. QED BY <1>3, <2>1 DEF TxTick
<1>5. thr' \in Seq(Chars) /\ Len(thr') <= TxDepth
  <2>1. thr \in Seq(Chars) /\ Len(thr) <= TxDepth /\ Len(thr) \in Nat
    BY LenProperties DEF TxInv, TxTypeOK
  <2>2. tx_fsm = "STOP" /\ count_bits = 0 /\ count_ticks = 0 => thr # << >>
    BY DEF TxInv, OnLine
  <2>. QED BY <1>4, <2>1, <2>2, QueueTail, TxAssumption
<1>6. LatchInv' /\ next_tx_fsm' \in TxStates
  <2>1. LatchFollows /\ tx_fsm' \in TxStates
    BY <1>1, <1>2 DEF TxTick, TxTypeOK
  <2>. QED BY <1>1, <1>2, <2>1, LatchKept, LatchTyped DEF TxInv
<1>7. TxTypeOK'
  BY <1>1, <1>2, <1>5, <1>6, TicksStep DEF TxTypeOK
<1>8. OnLine' => OnLine /\ thr' = thr
  BY <1>1, <1>2, <1>3, <1>4 DEF OnLine
<1>9. tx_fsm # "STOP" => thr' = thr
  BY <1>4
<1>. QED BY <1>1, <1>4, <1>6, <1>7, <1>8, <1>9 DEF TxInv

\* What follows a bit of the transmitter.
TxNextBit ==
    CASE tx_fsm = "START"  -> tx_fsm' = "DATA" /\ count_bits' = 0
      [] tx_fsm = "DATA"   -> IF count_bits < lcr.wls + 4
                              THEN tx_fsm' = "DATA" /\ count_bits' = count_bits + 1
                              ELSE /\ tx_fsm' = (IF lcr.pen THEN "PARITY" ELSE "STOP")
                                   /\ count_bits' = 0
      [] tx_fsm = "PARITY" -> tx_fsm' = "STOP" /\ count_bits' = 0
      [] OTHER -> \/ tx_fsm' \in {"START", "IDLE", "STOP_HALF"}
                  \/ tx_fsm' = "STOP" /\ count_bits' = 1 /\ lcr.stb = 1

\* The tick between two bits.
LEMMA TxBetween ==
    ASSUME TxInv, TxTick, count_ticks' = 0
    PROVE  /\ lcr' = lcr /\ thr' = thr
           /\ TxNextBit
           /\ count_ticks # 0
           /\ TxInv'
<1>1. count_ticks' = TicksNext /\ FirstTick /\ UNCHANGED <<lcr, tx_junk>>
  BY DEF TxTick
<1>2. TxTypeOK /\ count_ticks \in 0 .. TICKS - 1 /\ count_bits \in 0 .. 7
      /\ tx_fsm \in TxStates
  BY DEF TxInv, TxTypeOK
<1>3. thr' = thr
  BY <1>1 DEF TxTick, tx_ready
<1>4. count_ticks # 0
  BY <1>1, <1>2, TicksStep
<1>5. /\ tx_fsm' = TxLatch(tx_fsm, count_bits, lcr, tx_start(thr), tx_fsm)
      /\ count_bits' = IF ~cb_incr(tx_fsm) \/ last_bit(count_bits, lcr) THEN 0
                       ELSE (count_bits + 1) % 8
      /\ tsr' = CASE tx_fsm = "START" -> tx_din(thr)
                  [] tx_fsm = "DATA"  -> [i \in 0 .. 7 |-> IF i = 7 THEN 0 ELSE tsr[i + 1]]
                  [] OTHER            -> tsr
  BY <1>1 DEF FirstTick, TxInv, LatchInv
<1>6. /\ lcr.wls \in 0 .. 3 /\ lcr.stb \in Bit /\ lcr.pen \in BOOLEAN
  BY <1>2, LineTyped
<1>7. tx_fsm \in {"START", "DATA", "PARITY"} => thr # << >> /\ Head(thr) \in Chars
  BY <1>2, QueueTail DEF TxInv, OnLine, TxTypeOK
<1>8. /\ tx_fsm' = "START" => thr # << >>
      /\ tx_fsm' \in TxStates
  BY <1>2, <1>5 DEF TxLatch, StartOrIdle, tx_start, TxStates
<1>9. TxNextBit
  <2>1. CASE tx_fsm = "START"
    BY <1>5, <2>1 DEF TxLatch, TxNextBit, cb_incr
  <2>2. CASE tx_fsm = "DATA"
    <3>1. count_bits <= lcr.wls + 4 /\ (last_bit(count_bits, lcr) <=> count_bits = lcr.wls + 4)
      BY <1>2, <1>6, <2>2 DEF TxInv, last_bit
    <3>. QED BY <1>2, <1>5, <1>6, <2>2, <3>1 DEF TxLatch, TxNextBit, cb_incr
  <2>3. CASE tx_fsm = "PARITY"
    BY <1>5, <2>3 DEF TxLatch, TxNextBit, cb_incr
  <2>4. CASE tx_fsm = "STOP"
    <3>1. count_bits <= lcr.stb /\ lcr.stb \in {0, 1} /\ ~last_bit(count_bits, lcr)
      BY <1>2, <1>6, <2>4 DEF TxInv, last_bit, Bit
    <3>2. count_bits' = (count_bits + 1) % 8
      BY <1>5, <2>4, <3>1 DEF cb_incr
    <3>. QED BY <1>2, <1>5, <2>4, <3>1, <3>2 DEF TxLatch, TxNextBit, StartOrIdle
  <2>5. CASE tx_fsm \in {"IDLE", "STOP_HALF"}
    BY <1>5, <2>5 DEF TxLatch, TxNextBit, StartOrIdle
  <2>. QED BY <1>2, <2>1, <2>2, <2>3, <2>4, <2>5 DEF TxStates
<1>10. OnLine' => thr' # << >>
  <2>1. tx_fsm' \in {"DATA", "PARITY"} => tx_fsm \in {"START", "DATA"}
    BY <1>2, <1>9 DEF TxNextBit, TxStates
  <2>2. tx_fsm' = "STOP" /\ count_bits' = 0 => tx_fsm \in {"DATA", "PARITY"}
    BY <1>2, <1>9 DEF TxNextBit, TxStates
  <2>. QED BY <1>3, <1>7, <1>8, <2>1, <2>2 DEF OnLine
<1>11. ASSUME tx_fsm' = "DATA"
       PROVE  /\ count_bits' <= lcr.wls + 4
              /\ \A i \in 0 .. 7 - count_bits' : tsr'[i] = Head(thr)[i + count_bits']
  <2>1. CASE tx_fsm = "START"
    <3>1. tsr' = Head(thr) /\ count_bits' = 0 /\ Head(thr) \in [0 .. 7 -> Bit]
      BY <1>5, <1>7, <1>9, <2>1, FrameAssumption DEF tx_din, TxNextBit
    <3>. QED BY <1>6, <3>1
  <2>2. CASE tx_fsm = "DATA"
    <3>1. /\ count_bits < lcr.wls + 4 /\ count_bits' = count_bits + 1
          /\ tsr' = [i \in 0 .. 7 |-> IF i = 7 THEN 0 ELSE tsr[i + 1]]
          /\ \A i \in 0 .. 7 - count_bits : tsr[i] = Head(thr)[i + count_bits]
      BY <1>5, <1>9, <1>11, <2>2 DEF TxNextBit, TxInv
    <3>2. ASSUME NEW i \in 0 .. 7 - count_bits'
          PROVE  tsr'[i] = Head(thr)[i + count_bits']
      BY <1>2, <1>6, <3>1
    <3>. QED BY <1>2, <1>6, <3>1, <3>2
  <2>. QED BY <1>2, <1>9, <1>11, <2>1, <2>2 DEF TxNextBit, TxStates
<1>12. /\ tx_fsm' = "PARITY" => lcr.pen /\ count_bits' = 0
       /\ tx_fsm' = "STOP" => count_bits' <= lcr.stb
  BY <1>2, <1>6, <1>9 DEF TxNextBit, TxStates, Bit
<1>13. TxTypeOK'
  <2>1. count_bits' \in 0 .. 7
    BY <1>2, <1>5
  <2>2. tsr' \in [0 .. 7 -> Bit]
    BY <1>2, <1>5, <1>7, FrameAssumption DEF tx_din, TxTypeOK, Bit
  <2>3. next_tx_fsm' \in TxStates
    BY <1>2, <1>8, LatchTyped DEF TxTick
  <2>. QED BY <1>1, <1>2, <1>3, <1>8, <2>1, <2>2, <2>3, TicksStep DEF TxTypeOK
<1>14. LatchInv'
  BY <1>1 DEF TxTick, FirstTick, LatchFollows, LatchInv
<1>. QED BY <1>1, <1>3, <1>4, <1>9, <1>10, <1>11, <1>12, <1>13, <1>14 DEF TxInv

-----------------------------------------------------------------------------
(* A tick of both sides *)

LEMMA LevelIsBit ==
    ASSUME TxInv
    PROVE  /\ tx_dout \in Bit
           /\ tx_fsm = "START" => tx_dout = 0
           /\ tx_fsm \notin {"START", "DATA", "PARITY"} => tx_dout = 1
<1>1. TxTypeOK
  BY DEF TxInv
<1>. QED BY <1>1, LineTyped, ParityIs DEF tx_dout, TxTypeOK, TxStates, Bit

\* After the first tick of a bit the line shows what the receiver is to vote.
LEMMA LevelIsRxBit ==
    ASSUME LoopInv, Sending, count_ticks # 0
    PROVE  tx_dout = RxBit(Head(expected))
<1>1. rx_fsm = tx_fsm /\ (tx_fsm = "DATA" => rx_bits = count_bits)
  BY DEF LoopInv, PhaseInv
<1>2. tx_fsm \in {"START", "DATA", "PARITY"} => expected = thr /\ thr # << >>
  BY DEF LoopInv, QueueInv, Judging, TxInv, OnLine
<1>3. tx_fsm = "DATA" => tsr[0] = Head(thr)[count_bits]
  <2>1. count_bits \in 0 .. 7
    BY DEF LoopInv, TxInv, TxTypeOK
  <2>2. tx_fsm = "DATA" => tsr[0] = Head(thr)[0 + count_bits]
    BY <2>1 DEF LoopInv, TxInv
  <2>. QED BY <2>1, <2>2
<1>. QED BY <1>1, <1>2, <1>3 DEF tx_dout, RxBit, tx_din, Sending

\* The word the receiver is receiving.
LEMMA WordIsChar ==
    ASSUME LoopInv, expected # << >>
    PROVE  /\ Head(expected) \in [0 .. 7 -> Bit]
           /\ Tail(expected) \in Seq(Chars)
  BY QueueTail, FrameAssumption DEF LoopInv

LEMMA ReceivingHasWord ==
    ASSUME LoopInv, Receiving
    PROVE  (OnLine \/ Judging) /\ expected # << >>
<1>1. TICKS \in Nat /\ TICKS >= 8 /\ TICK_SAMPLE_D \in Nat /\ TICK_SAMPLE_D < TICKS - 1
  BY TickFacts
<1>2. count_ticks \in 0 .. TICKS - 1 /\ tx_fsm \in TxStates /\ rx_ticks \in 0 .. TICKS - 1
  BY DEF LoopInv, TxInv, TxTypeOK, RxTypeOK
<1>3. OnLine \/ Judging
  BY <1>1, <1>2 DEF LoopInv, PhaseInv, Receiving, Sending, OnLine, Judging, TxStates
<1>. QED BY <1>3 DEF LoopInv, QueueInv, TxInv

\* A tick within a bit of a frame, and the one that ends it: the receiver
\* takes its samples, votes, shifts and, in the stop bit, delivers.
LEMMA ReceiverTick ==
    ASSUME LoopInv, Tick, Sending, count_ticks # 0
    PROVE  /\ rx_fsm' = rx_fsm /\ rx_bits' = rx_bits /\ rx_ticks' = count_ticks
           /\ GotInv'
           /\ faulty' = FALSE
           /\ expected' = IF rx_fsm = "STOP" /\ count_ticks = TICK_SAMPLE_D
                          THEN Tail(expected) ELSE expected
           /\ rx_fsm = "STOP" /\ count_ticks = TICK_SAMPLE_D => expected # << >>
<1>1. /\ rx_fsm = tx_fsm /\ rx_fsm # "IDLE" /\ rx_ticks = count_ticks - 1
      /\ count_ticks \in 1 .. TICKS - 1 /\ rx_ticks \in 0 .. TICKS - 1
      /\ lcr \in LineCtrl /\ lcr' = lcr
  <2>1. TxTypeOK
    BY DEF LoopInv, TxInv
  <2>. QED BY <2>1, LineTyped DEF LoopInv, PhaseInv, Sending, TxTypeOK, RxTypeOK, Tick, TxTick
<1>2. RxTick(tx_dout) /\ tx_dout \in Bit /\ RxTypeOK
  BY LevelIsBit DEF LoopInv, Tick
<1>3. /\ rx_fsm' = rx_fsm /\ rx_bits' = rx_bits /\ rx_ticks' = rx_ticks + 1
      /\ \A c \in [0 .. 7 -> Bit] :
            RxGot(c) /\ (rx_ticks = TICK_SAMPLE_C => voted_din' = RxBit(c))
            => RxGot(c)'
  BY <1>1, <1>2, RxWithin, TickFacts
<1>4. rx_ticks' = count_ticks
  BY <1>1, <1>3
<1>5. tx_dout = RxBit(Head(expected))
  BY <1>1, LevelIsRxBit
<1>6. ASSUME Receiving
      PROVE  /\ RxGot(Head(expected))
             /\ \A c : c = Head(expected) =>
                  /\ RxGot(c)'
                  /\ rx_ticks' > TICK_SAMPLE_A => s0' = RxBit(c)'
                  /\ rx_ticks' > TICK_SAMPLE_B => s1' = RxBit(c)'
  <2>1. expected # << >> /\ Head(expected) \in [0 .. 7 -> Bit]
    BY <1>6, ReceivingHasWord, WordIsChar
  <2>2. PICK c \in [0 .. 7 -> Bit] : c = Head(expected)
    BY <2>1
  <2>3. /\ RxGot(c) /\ tx_dout = RxBit(c)
        /\ rx_ticks > TICK_SAMPLE_A => s0 = RxBit(c)
        /\ rx_ticks > TICK_SAMPLE_B => s1 = RxBit(c)
    BY <1>5, <1>6, <2>2 DEF LoopInv, GotInv
  <2>4. RxBit(c)' = RxBit(c)
    BY <1>1, <1>3 DEF RxBit
  <2>5. /\ s0' = IF rx_ticks = TICK_SAMPLE_A THEN tx_dout ELSE s0
        /\ s1' = IF rx_ticks = TICK_SAMPLE_B THEN tx_dout ELSE s1
        /\ s2' = IF rx_ticks = TICK_SAMPLE_C THEN tx_dout ELSE s2
    BY <1>2 DEF RxTick, Sample
  <2>6. rx_ticks = TICK_SAMPLE_C => voted_din' = RxBit(c)
    <3>. SUFFICES ASSUME rx_ticks = TICK_SAMPLE_C PROVE voted_din' = RxBit(c)
      OBVIOUS
    <3>1. s0' = tx_dout /\ s1' = tx_dout /\ s2' = tx_dout
      BY <2>3, <2>5, TickFacts
    <3>. QED BY <1>2, <2>3, <3>1 DEF voted_din, Bit
  <2>7. RxGot(c)'
    BY <1>3, <2>3, <2>6
  <2>8. /\ rx_ticks' > TICK_SAMPLE_A => s0' = RxBit(c)'
        /\ rx_ticks' > TICK_SAMPLE_B => s1' = RxBit(c)'
    BY <1>1, <1>3, <2>3, <2>4, <2>5, TickFacts
  <2>. QED BY <2>2, <2>3, <2>7, <2>8
<1>7. (rx_done' /\ ~rx_done) <=> (rx_fsm = "STOP" /\ count_ticks = TICK_SAMPLE_D)
  BY <1>1, <1>3, <1>4, TickFacts DEF rx_done
<1>8. CASE rx_fsm = "STOP" /\ count_ticks = TICK_SAMPLE_D
  <2>1. Receiving
    BY <1>1, <1>8, TickFacts DEF Receiving
  <2>2. expected # << >>
    BY <2>1, ReceivingHasWord
  <2>3. PICK c \in [0 .. 7 -> Bit] : c = Head(expected)
    BY <2>2, WordIsChar
  <2>4. RxGot(c)' /\ rx_done'
    BY <1>6, <1>7, <1>8, <2>1, <2>3
  <2>5. lcr' \in LineCtrl
    BY <1>1
  <2>6. rx_out' = [data |-> Masked(c, lcr'), perr |-> FALSE, ferr |-> FALSE]
    BY <2>4, <2>5, RxDelivers
  <2>7. expected' = Tail(expected) /\ faulty' = FALSE
    BY <1>1, <1>7, <1>8, <2>2, <2>3, <2>6 DEF Tick, Deliver
  <2>8. ~Receiving'
    BY <1>3, <1>4, <1>8, TickFacts DEF Receiving
  <2>. QED BY <1>3, <1>4, <1>8, <2>2, <2>7, <2>8 DEF GotInv
<1>9. CASE ~(rx_fsm = "STOP" /\ count_ticks = TICK_SAMPLE_D)
  <2>1. expected' = expected /\ faulty' = FALSE
    BY <1>7, <1>9 DEF Tick, Deliver, LoopInv
  <2>2. Receiving' => Receiving
    BY <1>1, <1>3, <1>4, TickFacts DEF Receiving
  <2>3. GotInv'
    BY <1>6, <2>1, <2>2 DEF GotInv, RxGot, RxBit
  <2>. QED BY <1>3, <1>4, <1>9, <2>1, <2>3
<1>. QED BY <1>8, <1>9

\* What a tick keeps, wherever both sides are.
LEMMA TickTyped ==
    ASSUME LoopInv, Tick
    PROVE  /\ TxInv' /\ RxTypeOK' /\ lcr' = lcr /\ lcr \in LineCtrl
           /\ RxTick(tx_dout) /\ tx_dout \in Bit
           /\ count_ticks' = TicksNext
           /\ count_ticks \in 0 .. TICKS - 1 /\ count_ticks' \in 0 .. TICKS - 1
<1>1. TxInv /\ RxTypeOK /\ TxTypeOK /\ TxTick /\ RxTick(tx_dout)
  BY DEF LoopInv, TxInv, Tick
<1>2. TxInv'
  BY <1>1, TxWithin, TxBetween
<1>3. lcr' = lcr /\ count_ticks' = TicksNext
  BY <1>1 DEF TxTick
<1>4. lcr \in LineCtrl /\ tx_dout \in Bit
  BY <1>1, LineTyped, LevelIsBit
<1>5. RxTypeOK'
  BY <1>1, <1>3, <1>4, RxTyped
<1>. QED BY <1>1, <1>2, <1>3, <1>4, <1>5, TicksStep DEF TxTypeOK

\* A tick within a bit of a frame.
LEMMA TickWithin ==
    ASSUME LoopInv, Tick, Sending, count_ticks # 0, count_ticks' # 0
    PROVE  LoopInv'
<1>1. /\ TxInv' /\ RxTypeOK' /\ TxInv /\ TxTypeOK /\ TxTick
      /\ count_ticks \in 1 .. TICKS - 1 /\ tx_fsm # "STOP_HALF"
  <2>1. count_ticks \in 0 .. TICKS - 1 /\ TICKS \in Nat
    BY TickTyped, TickFacts
  <2>2. count_ticks \in 1 .. TICKS - 1
    BY <2>1
  <2>. QED BY <2>2, TickTyped DEF LoopInv, TxInv, Tick, Sending
<1>2. /\ UNCHANGED <<tx_fsm, count_bits, tsr, lcr, thr>>
      /\ count_ticks' = count_ticks + 1
  BY <1>1, TickTyped, TxWithin, TicksStep
<1>3. /\ rx_fsm' = rx_fsm /\ rx_bits' = rx_bits /\ rx_ticks' = count_ticks
      /\ GotInv' /\ faulty' = FALSE
      /\ expected' = IF rx_fsm = "STOP" /\ count_ticks = TICK_SAMPLE_D
                     THEN Tail(expected) ELSE expected
      /\ rx_fsm = "STOP" /\ count_ticks = TICK_SAMPLE_D => expected # << >>
  BY ReceiverTick
<1>4. rx_fsm = tx_fsm /\ (tx_fsm = "DATA" => rx_bits = count_bits)
  BY DEF LoopInv, PhaseInv
<1>5. PhaseInv'
  BY <1>1, <1>2, <1>3, <1>4 DEF PhaseInv, Sending
<1>6. expected' \in Seq(Chars)
  BY <1>3, WordIsChar DEF LoopInv
<1>7. QueueInv'
  BY <1>1, <1>2, <1>3, <1>4, TickFacts DEF LoopInv, QueueInv, Judging, Sending
<1>. QED BY <1>1, <1>3, <1>5, <1>6, <1>7 DEF LoopInv

\* The tick that ends a bit of a frame.
LEMMA TickEndsBit ==
    ASSUME LoopInv, Tick, Sending, count_ticks # 0, count_ticks' = 0
    PROVE  LoopInv'
<1>1. /\ TxInv' /\ RxTypeOK' /\ TxInv /\ TxTypeOK /\ TxTick
      /\ count_ticks \in 1 .. TICKS - 1 /\ tx_fsm # "STOP_HALF"
      /\ lcr' = lcr /\ lcr.wls \in 0 .. 3 /\ lcr.pen \in BOOLEAN
  <2>1. count_ticks \in 0 .. TICKS - 1 /\ TICKS \in Nat
    BY TickTyped, TickFacts
  <2>2. count_ticks \in 1 .. TICKS - 1
    BY <2>1
  <2>. QED BY <2>2, TickTyped, LcrFacts DEF LoopInv, TxInv, Tick, Sending
<1>2. thr' = thr /\ TxNextBit /\ count_ticks = TICKS - 1
  BY <1>1, TickTyped, TxBetween, TicksStep
<1>3. /\ rx_fsm' = rx_fsm /\ rx_bits' = rx_bits /\ rx_ticks' = TICKS - 1
      /\ GotInv' /\ faulty' = FALSE /\ expected' = expected
  BY <1>2, ReceiverTick, TickFacts
<1>4. rx_fsm = tx_fsm /\ (tx_fsm = "DATA" => rx_bits = count_bits)
  BY DEF LoopInv, PhaseInv
<1>5. /\ count_bits \in 0 .. 7
      /\ tx_fsm = "DATA" => count_bits <= lcr.wls + 4
      /\ tx_fsm = "PARITY" => lcr.pen
  BY <1>1 DEF TxInv, TxTypeOK
<1>6. PhaseInv'
  <2>1. CASE tx_fsm = "START"
    BY <1>1, <1>2, <1>3, <1>4, <2>1 DEF PhaseInv, TxNextBit, Sending
  <2>2. CASE tx_fsm = "DATA"
    BY <1>1, <1>2, <1>3, <1>4, <1>5, <2>2 DEF PhaseInv, TxNextBit, Sending
  <2>3. CASE tx_fsm = "PARITY"
    BY <1>1, <1>2, <1>3, <1>4, <1>5, <2>3 DEF PhaseInv, TxNextBit, Sending
  <2>4. CASE tx_fsm = "STOP"
    BY <1>1, <1>2, <1>3, <1>4, <2>4 DEF PhaseInv, TxNextBit, Sending
  <2>. QED BY <2>1, <2>2, <2>3, <2>4 DEF Sending
<1>7. QueueInv'
  BY <1>1, <1>2, <1>3, TickFacts DEF LoopInv, QueueInv, Judging
<1>. QED BY <1>1, <1>3, <1>6, <1>7 DEF LoopInv

\* The first tick of a bit of a frame: the receiver goes on to that bit, and
\* in the stop bit the word is pulled from the FIFO.
LEMMA TickBeginsBit ==
    ASSUME LoopInv, Tick, Sending, count_ticks = 0
    PROVE  LoopInv'
<1>1. /\ TxInv' /\ RxTypeOK' /\ TxInv /\ RxTypeOK /\ TxTypeOK /\ TxTick
      /\ RxTick(tx_dout) /\ tx_dout \in Bit
      /\ tx_fsm # "STOP_HALF" /\ lcr' = lcr /\ lcr \in LineCtrl
      /\ lcr.wls \in 0 .. 3 /\ lcr.pen \in BOOLEAN
  BY TickTyped, LcrFacts DEF LoopInv, TxInv, Tick, Sending
<1>2. count_ticks' = 1
  BY <1>1, TickTyped, TicksStep, TickFacts
<1>3. /\ UNCHANGED <<tx_fsm, count_bits, tsr, lcr>>
      /\ thr' = IF tx_fsm = "STOP" THEN Tail(thr) ELSE thr
  BY <1>1, <1>2, TxWithin DEF Sending
<1>4. OnLine /\ thr # << >> /\ expected = thr /\ rx_ticks = TICKS - 1
  BY DEF LoopInv, TxInv, OnLine, Sending, QueueInv, Judging, PhaseInv
<1>5. PICK c \in [0 .. 7 -> Bit] : c = Head(expected)
  BY <1>4, WordIsChar
<1>6. /\ rx_ticks' = 0 /\ RxGot(c)' /\ rx_fsm' = tx_fsm
      /\ tx_fsm = "DATA" => rx_bits' = count_bits
  <2>1. CASE tx_fsm = "START"
    <3>1. rx_fsm \in {"IDLE", "STOP"} /\ tx_dout = 0
      BY <2>1, LevelIsBit DEF LoopInv, PhaseInv
    <3>. QED BY <1>1, <1>4, <2>1, <3>1, RxStart
  <2>2. CASE tx_fsm # "START"
    <3>1. /\ rx_fsm \in {"START", "DATA", "PARITY"}
          /\ tx_fsm = "DATA" => IF count_bits = 0 THEN rx_fsm = "START"
                                ELSE rx_fsm = "DATA" /\ rx_bits = count_bits - 1
          /\ tx_fsm = "PARITY" \/ (tx_fsm = "STOP" /\ ~lcr.pen) =>
                rx_fsm = "DATA" /\ rx_bits = lcr.wls + 4
          /\ tx_fsm = "STOP" /\ lcr.pen => rx_fsm = "PARITY"
      BY <2>2 DEF LoopInv, PhaseInv, Sending
    <3>2. RxGot(c)
      BY <1>5, <3>1 DEF LoopInv, GotInv, Receiving
    <3>3. rx_ticks' = 0 /\ RxNextBit(tx_dout) /\ RxGot(c)'
      BY <1>1, <1>4, <3>1, <3>2, RxBetween
    <3>4. /\ tx_fsm = "DATA" => count_bits <= lcr.wls + 4 /\ count_bits \in 0 .. 7
          /\ tx_fsm = "PARITY" => lcr.pen
      BY <1>1 DEF TxInv, TxTypeOK
    <3>5. rx_fsm' = tx_fsm /\ (tx_fsm = "DATA" => rx_bits' = count_bits)
      <4>1. CASE tx_fsm = "DATA"
        <5>1. CASE count_bits = 0
          BY <3>1, <3>3, <4>1, <5>1 DEF RxNextBit
        <5>2. CASE count_bits # 0
          <6>1. rx_fsm = "DATA" /\ rx_bits = count_bits - 1 /\ rx_bits < lcr.wls + 4
            BY <1>1, <3>1, <3>4, <4>1, <5>2
          <6>2. rx_fsm' = "DATA" /\ rx_bits' = rx_bits + 1
            BY <3>3, <6>1 DEF RxNextBit
          <6>. QED BY <3>4, <4>1, <6>1, <6>2
        <5>. QED BY <5>1, <5>2
      <4>2. CASE tx_fsm = "PARITY"
        <5>1. rx_fsm = "DATA" /\ lcr.pen /\ ~(rx_bits < lcr.wls + 4)
          BY <1>1, <3>1, <3>4, <4>2
        <5>. QED BY <3>3, <4>2, <5>1 DEF RxNextBit
      <4>3. CASE tx_fsm = "STOP"
        <5>1. CASE lcr.pen
          BY <3>1, <3>3, <4>3, <5>1 DEF RxNextBit
        <5>2. CASE ~lcr.pen
          <6>1. rx_fsm = "DATA" /\ ~(rx_bits < lcr.wls + 4)
            BY <1>1, <3>1, <4>3, <5>2
          <6>. QED BY <3>3, <4>3, <5>2, <6>1 DEF RxNextBit
        <5>. QED BY <5>1, <5>2
      <4>. QED BY <2>2, <4>1, <4>2, <4>3 DEF Sending
    <3>. QED BY <3>3, <3>5
  <2>. QED BY <2>1, <2>2
<1>7. expected' = expected /\ faulty' = FALSE
  BY <1>6, TickFacts DEF Tick, Deliver, rx_done, LoopInv
<1>8. PhaseInv'
  BY <1>2, <1>3, <1>6 DEF PhaseInv, Sending
<1>9. QueueInv'
  BY <1>2, <1>3, <1>4, <1>7, TickFacts DEF QueueInv, Judging, Sending
<1>10. GotInv'
  BY <1>5, <1>6, <1>7, TickFacts DEF GotInv
<1>. QED BY <1>1, <1>7, <1>8, <1>9, <1>10 DEF LoopInv

\* A tick while the line is high, after the stop bit that is judged.
LEMMA TickBetweenFrames ==
    ASSUME LoopInv, Tick, ~Sending
    PROVE  LoopInv'
<1>1. /\ TxInv' /\ RxTypeOK' /\ TxInv /\ RxTypeOK /\ TxTypeOK /\ TxTick
      /\ RxTick(tx_dout) /\ tx_dout = 1 /\ lcr' = lcr
      /\ tx_fsm \in {"IDLE", "STOP", "STOP_HALF"}
      /\ tx_fsm = "STOP" => count_bits # 0
  BY TickTyped, LevelIsBit DEF LoopInv, TxInv, Tick, Sending, TxTypeOK, TxStates
<1>2. /\ rx_fsm = "IDLE" \/ (rx_fsm = "STOP" /\ rx_ticks = TICKS - 1)
      /\ count_ticks # 0 => rx_fsm = "IDLE"
  BY DEF LoopInv, PhaseInv
<1>3. /\ rx_fsm' = "IDLE"
      /\ rx_fsm = "IDLE" => rx_ticks' = TICKS - 1
  BY <1>1, <1>2, RxRest, LevelIsBit DEF Bit
<1>4. expected' = expected /\ faulty' = FALSE /\ GotInv'
  BY <1>3 DEF Tick, Deliver, rx_done, LoopInv, GotInv, Receiving
<1>5. expected = thr
  BY DEF LoopInv, QueueInv, Judging, Sending
<1>6. CASE count_ticks' # 0
  <2>1. UNCHANGED <<tx_fsm, count_bits, thr>>
    BY <1>1, <1>6, TxWithin
  <2>. QED BY <1>1, <1>3, <1>4, <1>5, <1>6, <2>1 DEF LoopInv, PhaseInv, QueueInv, Judging, Sending
<1>7. CASE count_ticks' = 0
  <2>1. thr' = thr /\ TxNextBit /\ count_ticks # 0
    BY <1>1, <1>7, TxBetween
  <2>2. tx_fsm' \in {"START", "IDLE", "STOP_HALF"} \/ (tx_fsm' = "STOP" /\ count_bits' = 1)
    BY <1>1, <2>1 DEF TxNextBit
  <2>. QED BY <1>1, <1>2, <1>3, <1>4, <1>5, <1>7, <2>1, <2>2
           DEF LoopInv, PhaseInv, QueueInv, Judging, Sending
<1>. QED BY <1>6, <1>7

LEMMA TickKeeps ==
    ASSUME LoopInv, Tick
    PROVE  LoopInv'
  BY TickWithin, TickEndsBit, TickBeginsBit, TickBetweenFrames

-----------------------------------------------------------------------------
(* The CPU and the reset *)

\* Between the ticks of its clock the receiver keeps all it has.
LEMMA RxKept ==
    ASSUME LoopInv, UNCHANGED <<rxVars, lcr>>,
           Receiving => expected' # << >> /\ Head(expected') = Head(expected)
    PROVE  RxTypeOK' /\ GotInv'
<1>1. RxTypeOK'
  BY DEF rxVars, LoopInv, RxTypeOK
<1>2. (Receiving' <=> Receiving) /\ rx_ticks' = rx_ticks /\ s0' = s0 /\ s1' = s1
  BY DEF rxVars, Receiving
<1>3. ASSUME NEW c
      PROVE  RxGot(c)' = RxGot(c) /\ RxBit(c)' = RxBit(c)
  BY DEF rxVars, RxGot, RxBit, Shifted, voted_din
<1>4. ASSUME Receiving
      PROVE  /\ RxGot(Head(expected))'
             /\ rx_ticks > TICK_SAMPLE_A => s0 = RxBit(Head(expected))'
             /\ rx_ticks > TICK_SAMPLE_B => s1 = RxBit(Head(expected))'
  <2>1. PICK c : c = Head(expected)
    OBVIOUS
  <2>2. RxGot(c)' /\ (rx_ticks > TICK_SAMPLE_A => s0 = RxBit(c)')
        /\ (rx_ticks > TICK_SAMPLE_B => s1 = RxBit(c)')
    BY <1>3, <1>4, <2>1 DEF LoopInv, GotInv
  <2>3. Head(expected') = c
    BY <1>4, <2>1
  <2>. QED BY <2>2, <2>3 DEF RxGot, RxBit, Shifted
<1>. QED BY <1>1, <1>2, <1>4 DEF GotInv

\* The CPU writes a character.
LEMMA WriteKeeps ==
    ASSUME LoopInv, NEW c \in Chars, Write(c)
    PROVE  LoopInv'
<1>1. /\ TxInv /\ TxTypeOK /\ LatchInv /\ QueueInv /\ PhaseInv
      /\ thr \in Seq(Chars) /\ expected \in Seq(Chars) /\ Len(thr) \in Nat
      /\ UNCHANGED <<lcr, tx_junk, tx_fsm, count_ticks, count_bits, tsr>>
      /\ UNCHANGED rxVars /\ faulty' = FALSE /\ LatchFollows
  BY LenProperties DEF LoopInv, TxInv, TxTypeOK, Write, WriteThr
<1>2. \/ thr' = thr /\ expected' = expected
      \/ /\ thr' = Append(thr, c) /\ Len(thr) < TxDepth
         /\ expected' = Append(expected, c)
  BY <1>1, QueueAppend DEF Write, WriteThr
<1>3. /\ thr' \in Seq(Chars) /\ Len(thr') <= TxDepth /\ expected' \in Seq(Chars)
      /\ thr # << >> => thr' # << >> /\ Head(thr') = Head(thr)
      /\ expected # << >> => /\ expected' # << >> /\ Head(expected') = Head(expected)
                             /\ Tail(expected) = thr => Tail(expected') = thr'
  <2>1. Len(thr) <= TxDepth /\ TxDepth \in Nat
    BY <1>1, TxAssumption DEF TxTypeOK
  <2>2. CASE thr' = thr /\ expected' = expected
    BY <1>1, <2>1, <2>2
  <2>3. CASE /\ thr' = Append(thr, c) /\ Len(thr) < TxDepth
             /\ expected' = Append(expected, c)
    <3>1. /\ thr' \in Seq(Chars) /\ Len(thr') = Len(thr) + 1
          /\ thr # << >> => thr' # << >> /\ Head(thr') = Head(thr)
      BY <1>1, <2>3, QueueAppend
    <3>2. /\ expected' \in Seq(Chars) /\ expected' # << >>
          /\ expected # << >> => /\ Head(expected') = Head(expected)
                                 /\ Tail(expected') = Append(Tail(expected), c)
      BY <1>1, <2>3, QueueAppend
    <3>3. Len(thr') <= TxDepth
      BY <1>1, <2>1, <2>3, <3>1
    <3>4. expected # << >> /\ Tail(expected) = thr => Tail(expected') = thr'
      BY <2>3, <3>2
    <3>. QED BY <3>1, <3>2, <3>3, <3>4
  <2>. QED BY <1>2, <2>2, <2>3
<1>4. LatchInv' /\ next_tx_fsm' \in TxStates
  BY <1>1, LatchKept, LatchTyped DEF TxTypeOK
<1>5. TxTypeOK'
  BY <1>1, <1>3, <1>4 DEF TxTypeOK
<1>6. TxInv'
  <2>1. OnLine => thr # << >>
    BY <1>1 DEF TxInv
  <2>2. OnLine' => OnLine
    BY <1>1 DEF OnLine
  <2>3. tx_fsm = "DATA" => Head(thr') = Head(thr)
    BY <1>3, <2>1 DEF OnLine
  <2>. QED BY <1>1, <1>3, <1>4, <1>5, <2>1, <2>2, <2>3 DEF TxInv
<1>7. RxTypeOK' /\ GotInv'
  <2>1. Receiving => expected # << >>
    BY ReceivingHasWord
  <2>. QED BY <1>1, <1>3, <2>1, RxKept
<1>8. PhaseInv'
  BY <1>1 DEF PhaseInv, Sending, rxVars
<1>9. QueueInv'
  BY <1>1, <1>2, <1>3 DEF QueueInv, Judging
<1>. QED BY <1>1, <1>3, <1>6, <1>7, <1>8, <1>9 DEF LoopInv

\* The transmit FIFO is cleared between two frames.
LEMMA ClearKeeps ==
    ASSUME LoopInv, ClearBetweenFrames
    PROVE  LoopInv'
<1>1. /\ TxInv /\ TxTypeOK /\ LatchInv /\ QueueInv /\ PhaseInv /\ ~OnLine
      /\ thr \in Seq(Chars) /\ expected \in Seq(Chars) /\ Len(thr) \in Nat
      /\ UNCHANGED <<lcr, tx_fsm, count_ticks, count_bits, tsr>>
      /\ thr' = << >> /\ tx_junk' \in Chars
      /\ UNCHANGED rxVars /\ faulty' = FALSE /\ LatchFollows
  BY LenProperties DEF LoopInv, TxInv, TxTypeOK, ClearBetweenFrames, Clear, ClearTx
<1>2. Judging => /\ expected # << >> /\ Head(expected) \in Chars
                 /\ expected' = <<Head(expected)>>
  <2>1. Judging => /\ expected # << >> /\ Head(expected) \in Chars
                   /\ Len(thr) = Len(expected) - 1 /\ Len(expected) \in Nat
    BY <1>1, QueueTail DEF QueueInv
  <2>. QED BY <1>1, <2>1 DEF ClearBetweenFrames, Clear
<1>3. ~Judging => expected' = << >>
  BY <1>1 DEF QueueInv, ClearBetweenFrames, Clear
<1>4. /\ thr' \in Seq(Chars) /\ Len(thr') <= TxDepth /\ expected' \in Seq(Chars)
      /\ Judging => /\ expected' # << >> /\ Head(expected') = Head(expected)
                    /\ Tail(expected') = thr'
  <2>1. thr' = << >> /\ thr' \in Seq(Chars) /\ Len(thr') <= TxDepth
    BY <1>1, TxAssumption
  <2>2. \A d \in Chars : <<d>> \in Seq(Chars) /\ <<d>> # << >>
                         /\ Head(<<d>>) = d /\ Tail(<<d>>) = << >>
    OBVIOUS
  <2>. QED BY <1>2, <1>3, <2>1, <2>2
<1>5. LatchInv' /\ next_tx_fsm' \in TxStates
  BY <1>1, LatchKept, LatchTyped DEF TxTypeOK
<1>6. TxTypeOK'
  BY <1>1, <1>4, <1>5 DEF TxTypeOK
<1>7. TxInv'
  BY <1>1, <1>5, <1>6 DEF TxInv, OnLine
<1>8. RxTypeOK' /\ GotInv'
  BY <1>1, <1>4, RxKept, ReceivingHasWord
<1>9. PhaseInv'
  BY <1>1 DEF PhaseInv, Sending, rxVars
<1>10. QueueInv'
  BY <1>1, <1>3, <1>4 DEF QueueInv, Judging
<1>. QED BY <1>1, <1>4, <1>7, <1>8, <1>9, <1>10 DEF LoopInv

\* The settings of the line change while both sides are idle.
LEMMA SetLineKeeps ==
    ASSUME LoopInv, NEW l \in LineCtrls, SetLine(l)
    PROVE  LoopInv'
<1>1. /\ TxInv /\ TxTypeOK /\ QueueInv /\ PhaseInv /\ RxTypeOK
      /\ tx_fsm = "IDLE" /\ rx_fsm = "IDLE" /\ lcr' = l
      /\ UNCHANGED <<thr, tx_junk, tx_fsm, count_ticks, count_bits, tsr>>
      /\ UNCHANGED <<rxVars, expected>> /\ faulty' = FALSE /\ LatchFollows
      /\ expected \in Seq(Chars)
  BY DEF LoopInv, TxInv, SetLine, WriteLcr
<1>2. next_tx_fsm' = TxLatch(tx_fsm', count_bits', lcr', tx_start(thr'), tx_fsm')
  BY <1>1 DEF LatchFollows, TxLatch
<1>3. next_tx_fsm' \in TxStates
  BY <1>1, LatchTyped DEF TxTypeOK
<1>4. TxTypeOK'
  BY <1>1, <1>3 DEF TxTypeOK
<1>5. TxInv'
  BY <1>1, <1>2, <1>4 DEF TxInv, LatchInv, OnLine
<1>6. RxTypeOK' /\ GotInv'
  BY <1>1 DEF RxTypeOK, GotInv, Receiving, rxVars
<1>7. PhaseInv' /\ QueueInv'
  BY <1>1 DEF PhaseInv, QueueInv, Sending, Judging, rxVars
<1>. QED BY <1>1, <1>5, <1>6, <1>7 DEF LoopInv

\* The reset brings both sides to rest together, in whatever states they are.
LEMMA ResetKeeps ==
    ASSUME LoopInv, Reset
    PROVE  LoopInv'
<1>1. TxTypeOK /\ RxTypeOK /\ faulty = FALSE
  BY DEF LoopInv, TxInv
<1>2. next_tx_fsm' = "IDLE"
  BY DEF Reset, ResetTx, LatchFollows, TxLatch, StartOrIdle, tx_start
<1>3. LatchInv'
  BY <1>2 DEF Reset, ResetTx, LatchInv, TxLatch, StartOrIdle, tx_start
<1>4. TxTypeOK'
  <2>1. count_bits' \in 0 .. 7 /\ count_ticks' \in 0 .. TICKS - 1
    BY <1>1, TickFacts DEF Reset, ResetTx, TxTypeOK
  <2>2. thr' \in Seq(Chars) /\ Len(thr') <= TxDepth
    BY TxAssumption DEF Reset, ResetTx
  <2>. QED BY <1>2, <2>1, <2>2, ResetAssumption DEF Reset, ResetTx, TxTypeOK, TxStates, Bit
<1>5. RxTypeOK'
  BY <1>1, TickFacts DEF Reset, ResetRx, RxTypeOK, RxStates, Bit
<1>. QED BY <1>1, <1>3, <1>4, <1>5 DEF Reset, ResetTx, ResetRx, LoopInv, TxInv, OnLine,
            PhaseInv, QueueInv, GotInv, Sending, Judging, Receiving

-----------------------------------------------------------------------------
(* Theorems *)

LEMMA LoopInvInit ==
    LoopInit => LoopInv
<1>. SUFFICES ASSUME LoopInit PROVE LoopInv
  OBVIOUS
<1>1. TxTypeOK
  BY TxAssumption, TickFacts DEF LoopInit, TxInit, TxTypeOK, TxStates, Bit
<1>2. LatchInv
  BY DEF LoopInit, TxInit, LatchInv, TxLatch, StartOrIdle, tx_start
<1>3. RxTypeOK
  BY TickFacts DEF LoopInit, RxInit, RxTypeOK, RxStates, Bit
<1>. QED BY <1>1, <1>2, <1>3 DEF LoopInit, TxInit, RxInit, LoopInv, TxInv, OnLine, PhaseInv,
            QueueInv, GotInv, Sending, Judging, Receiving

LEMMA LoopInvStep ==
    LoopInv /\ [LoopNext]_loopVars => LoopInv'
<1>. SUFFICES ASSUME LoopInv, [LoopNext]_loopVars PROVE LoopInv'
  OBVIOUS
<1>1. CASE Tick
  BY <1>1, TickKeeps
<1>2. CASE \E c \in Chars : Write(c)
  BY <1>2, WriteKeeps
<1>3. CASE \E l \in LineCtrls \ {lcr} : SetLine(l)
  BY <1>3, SetLineKeeps
<1>4. CASE Reset
  BY <1>4, ResetKeeps
<1>5. CASE ClearBetweenFrames
  BY <1>5, ClearKeeps
<1>6. CASE UNCHANGED loopVars
  BY <1>6 DEF loopVars, txVars, rxVars, LoopInv, TxInv, TxTypeOK, LatchInv, OnLine, RxTypeOK,
              PhaseInv, QueueInv, GotInv, Sending, Judging, Receiving, RxGot, RxBit,
              Shifted, voted_din
<1>. QED BY <1>1, <1>2, <1>3, <1>4, <1>5, <1>6 DEF LoopNext

\* The inductive invariant, through any interleaving of ticks, writes, changes
\* of the line's settings between frames, clears between frames and resets.
THEOREM LoopInvariant ==
    LoopSpec => []LoopInv
  BY LoopInvInit, LoopInvStep, PTL DEF LoopSpec

\* Every register of uart_tx.sv and uart_rx.sv stays within its width, the
\* transmit FIFO within its depth, whatever is written and whenever it is reset.
THEOREM LoopTypeCorrect ==
    LoopSpec => []LoopTypeOK
<1>1. LoopInv => LoopTypeOK
  BY DEF LoopInv, TxInv, LoopTypeOK
<1>. QED BY <1>1, LoopInvariant, PTL

\* What comes back over the loop is what was written to THR, word by word, in
\* order and without a parity or framing error: for all characters, word
\* lengths, kinds of parity and stop bits, depths of the FIFO and
\* oversampling rates.
THEOREM LoopFaithful ==
    LoopSpec => []Faithful
<1>1. LoopInv => Faithful
  BY DEF LoopInv, Faithful
<1>. QED BY <1>1, LoopInvariant, PTL

\* The transmit FIFO and the words that are still owed differ by the one word
\* whose stop bit is being judged, if any: tx_ready pulls no word that is not
\* on the line, and none twice.
THEOREM LoopNothingLost ==
    LoopSpec => []NothingLost
<1>1. LoopInv => NothingLost
  <2>. SUFFICES ASSUME LoopInv PROVE NothingLost
    OBVIOUS
  <2>1. expected \in Seq(Chars) /\ Len(expected) \in Nat
    BY LenProperties DEF LoopInv
  <2>2. CASE Judging
    <3>1. expected # << >> /\ Tail(expected) = thr
      BY <2>2 DEF LoopInv, QueueInv
    <3>2. Len(thr) = Len(expected) - 1
      BY <2>1, <3>1, QueueTail
    <3>. QED BY <2>1, <3>2 DEF NothingLost
  <2>3. CASE ~Judging
    <3>1. expected = thr
      BY <2>3 DEF LoopInv, QueueInv
    <3>. QED BY <2>1, <3>1 DEF NothingLost
  <2>. QED BY <2>2, <2>3
<1>. QED BY <1>1, LoopInvariant, PTL

\* The line shows, bit by bit, the start bit, the data bits and the parity bit
\* of the head of the FIFO: the data bits come from the shift register and the
\* parity bit from the FIFO, and they are of the same character.  Of the stop
\* bits LoopFrameLasts says how many there are.
THEOREM LoopLineIsFrame ==
    LoopSpec => []LineIsFrame
<1>1. LoopInv => LineIsFrame
  <2>. SUFFICES ASSUME LoopInv, tx_fsm \in {"START", "DATA", "PARITY"}
                PROVE  thr # << >> /\ tx_dout = FrameLevel(Head(thr), lcr, FrameIndex)
    BY DEF LineIsFrame
  <2>1. TxInv /\ TxTypeOK /\ thr # << >>
    BY DEF LoopInv, TxInv, OnLine
  <2>2. /\ lcr \in LineCtrl /\ lcr.wls \in 0 .. 3 /\ WordLen(lcr) = lcr.wls + 5
        /\ count_bits \in 0 .. 7
    BY <2>1, LineTyped DEF TxTypeOK
  <2>3. CASE tx_fsm = "START"
    <3>1. FrameIndex = 0 /\ tx_dout = 0
      BY <2>3 DEF tx_dout, FrameIndex
    <3>2. 0 \notin 1 .. WordLen(lcr) /\ WordLen(lcr) + 1 # 0
      BY <2>2
    <3>. QED BY <2>1, <3>1, <3>2 DEF FrameLevel
  <2>4. CASE tx_fsm = "DATA"
    <3>1. count_bits <= lcr.wls + 4 /\ tsr[0] = Head(thr)[0 + count_bits]
      BY <2>1, <2>2, <2>4 DEF TxInv
    <3>2. FrameIndex = 1 + count_bits /\ tx_dout = tsr[0]
      BY <2>4 DEF FrameIndex, tx_dout
    <3>3. /\ FrameIndex # 0 /\ FrameIndex \in 1 .. WordLen(lcr)
          /\ FrameIndex # WordLen(lcr) + 1 /\ FrameIndex - 1 = count_bits
      BY <2>2, <3>1, <3>2
    <3>4. FrameLevel(Head(thr), lcr, FrameIndex) = Head(thr)[count_bits]
      BY <3>3 DEF FrameLevel
    <3>. QED BY <2>1, <2>2, <3>1, <3>2, <3>4
  <2>5. CASE tx_fsm = "PARITY"
    <3>1. FrameIndex = WordLen(lcr) + 1 /\ lcr.pen
      BY <2>1, <2>5 DEF FrameIndex, TxInv
    <3>2. FrameLevel(Head(thr), lcr, FrameIndex) = ParityOf(Head(thr), lcr)
      <4>1. FrameIndex # 0 /\ FrameIndex \notin 1 .. WordLen(lcr)
        BY <2>2, <3>1
      <4>. QED BY <3>1, <4>1 DEF FrameLevel
    <3>3. tx_dout = TxParity(Head(thr), lcr)
      BY <2>1, <2>5 DEF tx_dout, tx_din
    <3>. QED BY <2>1, <2>2, <3>2, <3>3, ParityIs
  <2>. QED BY <2>3, <2>4, <2>5
<1>. QED BY <1>1, LoopInvariant, PTL

\* What tx_byte promises (uart_driver.h, "1 if data was accepted by uart") holds
\* as long as the transmit FIFO is cleared only between frames: at rest no
\* accepted word is still owed.
THEOREM LoopAcceptedIsSent ==
    LoopSpec => []AcceptedIsSent
<1>1. LoopInv => AcceptedIsSent
  BY DEF LoopInv, QueueInv, Judging, AcceptedIsSent
<1>. QED BY <1>1, LoopInvariant, PTL

-----------------------------------------------------------------------------
(* How long a frame lasts *)

\* The half stop bit skips the first half of the tick counter, and a stop that
\* is one and a half bits long counts one bit.
HalfInv ==
    /\ tx_fsm = "STOP_HALF" => count_ticks = 0 \/ count_ticks > TICKS \div 2
    /\ tx_fsm = "STOP" /\ half_parity(lcr) => count_bits = 0

\* The tick counter while the half stop bit is on the line.
LEMMA HalfStep ==
    ASSUME TxTypeOK, HalfInv, tx_fsm = "STOP_HALF"
    PROVE  TicksNext = IF count_ticks = 0 THEN TICKS \div 2 + 1
                       ELSE IF count_ticks = TICKS - 1 THEN 0 ELSE count_ticks + 1
<1>1. TICKS \in {8, 16, 32} /\ count_ticks \in 0 .. TICKS - 1
  BY FrameAssumption DEF TxTypeOK
<1>2. CASE count_ticks = 0
  <2>1. TicksNext = (0 + TICKS \div 2 + 1) % TICKS
    BY <1>1, <1>2 DEF TicksNext
  <2>. QED BY <1>1, <1>2, <2>1
<1>3. CASE count_ticks > TICKS \div 2
  <2>1. TicksNext = (count_ticks + 1) % TICKS
    BY <1>1, <1>3 DEF TicksNext
  <2>. QED BY <1>1, <1>3, <2>1
<1>. QED BY <1>2, <1>3 DEF HalfInv

\* Where the FSM goes when the tick counter wraps.
LEMMA BitEnds ==
    ASSUME TxInv, HalfInv, TxTick, count_ticks' = 0
    PROVE  /\ count_ticks = TICKS - 1 /\ lcr' = lcr
           /\ TxNextBit
           /\ tx_fsm = "STOP" =>
                 IF half_parity(lcr) THEN tx_fsm' = "STOP_HALF" /\ count_bits = 0
                 ELSE IF count_bits = lcr.stb THEN tx_fsm' \in {"START", "IDLE"}
                 ELSE tx_fsm' = "STOP" /\ count_bits = 0 /\ count_bits' = 1 /\ lcr.stb = 1
           /\ tx_fsm \in {"IDLE", "STOP_HALF"} => tx_fsm' \in {"START", "IDLE"}
<1>1. /\ TxTypeOK /\ TxNextBit /\ lcr' = lcr
      /\ tx_fsm' = TxLatch(tx_fsm, count_bits, lcr, tx_start(thr), tx_fsm)
  BY TxBetween DEF TxTick, FirstTick, TxInv, LatchInv
<1>2. count_ticks = TICKS - 1
  <2>1. TicksNext = 0 /\ count_ticks \in 0 .. TICKS - 1 /\ TICKS \in Nat
    BY <1>1, TickFacts DEF TxTick, TxTypeOK
  <2>2. CASE tx_fsm = "STOP_HALF"
    BY <1>1, <2>1, <2>2, HalfStep
  <2>3. CASE tx_fsm # "STOP_HALF"
    BY <1>1, <2>1, <2>3, TicksStep
  <2>. QED BY <2>2, <2>3
<1>3. CASE tx_fsm = "STOP"
  <2>1. count_bits <= lcr.stb /\ lcr.stb \in {0, 1} /\ count_bits \in 0 .. 7
    BY <1>1, <1>3, LineTyped DEF TxInv, TxTypeOK, Bit
  <2>2. /\ half_parity(lcr) => tx_fsm' = "STOP_HALF"
        /\ ~half_parity(lcr) /\ count_bits = lcr.stb => tx_fsm' \in {"START", "IDLE"}
        /\ ~half_parity(lcr) /\ count_bits # lcr.stb => tx_fsm' = "STOP"
    BY <1>1, <1>3 DEF TxLatch, StartOrIdle
  <2>3. tx_fsm' = "STOP" => count_bits' = 1
    BY <1>1, <1>3 DEF TxNextBit
  <2>. QED BY <1>1, <1>2, <1>3, <2>1, <2>2, <2>3 DEF HalfInv
<1>4. tx_fsm \in {"IDLE", "STOP_HALF"} => tx_fsm' \in {"START", "IDLE"}
  BY <1>1 DEF TxLatch, StartOrIdle
<1>. QED BY <1>1, <1>2, <1>3, <1>4

LEMMA HalfKept ==
    LoopInv /\ HalfInv /\ [LoopNext]_loopVars => HalfInv'
<1>. SUFFICES ASSUME LoopInv, HalfInv, [LoopNext]_loopVars PROVE HalfInv'
  OBVIOUS
<1>1. TxInv /\ TxTypeOK
  BY DEF LoopInv, TxInv
<1>2. CASE Tick /\ count_ticks' # 0
  <2>1. UNCHANGED <<tx_fsm, count_bits, lcr>> /\ count_ticks' = TicksNext
    BY <1>1, <1>2, TxWithin DEF Tick, TxTick
  <2>2. TICKS \in Nat /\ TICKS \div 2 \in Nat
    BY FrameAssumption
  <2>3. tx_fsm = "STOP_HALF" => count_ticks' > TICKS \div 2
    BY <1>1, <1>2, <2>1, <2>2, HalfStep DEF HalfInv, TxTypeOK
  <2>. QED BY <2>1, <2>3 DEF HalfInv, half_parity
<1>3. CASE Tick /\ count_ticks' = 0
  <2>1. tx_fsm' = "STOP" /\ half_parity(lcr') => count_bits' = 0
    BY <1>1, <1>3, BitEnds DEF Tick, TxNextBit, half_parity, TxTypeOK, TxStates
  <2>. QED BY <1>3, <2>1 DEF HalfInv, half_parity
<1>4. CASE \E c \in Chars : Write(c)
  BY <1>4 DEF Write, WriteThr, HalfInv, half_parity
<1>5. CASE \E l \in LineCtrls \ {lcr} : SetLine(l)
  BY <1>5 DEF SetLine, WriteLcr, HalfInv
<1>6. CASE Reset
  BY <1>6 DEF Reset, ResetTx, HalfInv
<1>7. CASE ClearBetweenFrames
  BY <1>7 DEF ClearBetweenFrames, Clear, ClearTx, HalfInv, half_parity
<1>8. CASE UNCHANGED loopVars
  BY <1>8 DEF loopVars, txVars, HalfInv, half_parity
<1>. QED BY <1>2, <1>3, <1>4, <1>5, <1>6, <1>7, <1>8 DEF LoopNext

\* A tick takes one off the frame, or ends it.
LEMMA TickTakesOne ==
    ASSUME TxInv, HalfInv, TxTick
    PROVE  FrameTick
<1>. DEFINE P == ParityTicks(lcr)
            S == StopTicks(lcr)
            W == WordLen(lcr)
            F == FrameTicks(lcr)
<1>1. /\ TICKS \in {8, 16, 32} /\ TxTypeOK /\ tx_fsm \in TxStates
      /\ count_ticks \in 0 .. TICKS - 1 /\ count_bits \in 0 .. 7
      /\ W \in 5 .. 8 /\ lcr.stb \in {0, 1} /\ W = lcr.wls + 5 /\ lcr.wls \in 0 .. 3
  BY FrameAssumption, LineTyped DEF TxInv, TxTypeOK, Bit
<1>2. P \in {0, TICKS} /\ (P = IF lcr.pen THEN TICKS ELSE 0)
  BY DEF ParityTicks
<1>3. /\ lcr.stb = 0 => S = TICKS
      /\ half_parity(lcr) => S = TICKS + TICKS \div 2
      /\ lcr.stb = 1 /\ ~half_parity(lcr) => S = 2 * TICKS
      /\ S \in Nat /\ S >= TICKS /\ S <= 2 * TICKS
  BY <1>1 DEF StopTicks, half_parity
<1>4. lcr' = lcr
  BY DEF TxTick
<1>5. /\ ParityTicks(lcr') = P /\ StopTicks(lcr') = S /\ WordLen(lcr') = W
      /\ FrameTicks(lcr') = F
      /\ F = (1 + W) * TICKS + P + S
  BY <1>4 DEF FrameTicks
<1>. HIDE DEF P, S, W, F
<1>6. CASE count_ticks' # 0
  <2>1. UNCHANGED <<tx_fsm, count_bits>> /\ count_ticks' = TicksNext
    BY <1>6, TxWithin DEF TxTick
  <2>2. CASE tx_fsm = "STOP_HALF"
    <3>1. count_ticks' = IF count_ticks = 0 THEN TICKS \div 2 + 1 ELSE count_ticks + 1
      BY <1>1, <1>6, <2>1, <2>2, HalfStep
    <3>2. /\ FrameLeft = IF count_ticks = 0 THEN TICKS \div 2 ELSE TICKS - count_ticks
          /\ FrameLeft' = TICKS - count_ticks'
      BY <1>6, <2>1, <2>2 DEF FrameLeft
    <3>3. count_ticks # TICKS - 1
      BY <1>1, <1>6, <2>1, <2>2, HalfStep
    <3>. QED BY <1>1, <3>1, <3>2, <3>3 DEF FrameTick
  <2>3. CASE tx_fsm = "IDLE"
    <3>1. FrameLeft = 0 /\ FrameLeft' = 0
      BY <2>1, <2>3 DEF FrameLeft
    <3>. QED BY <3>1 DEF FrameTick
  <2>4. CASE tx_fsm \in {"START", "DATA", "PARITY", "STOP"}
    <3>1. count_ticks' = count_ticks + 1 /\ count_ticks < TICKS - 1
      BY <1>1, <1>6, <2>1, <2>4, TicksStep
    <3>2. FrameLeft' = FrameLeft - 1 /\ FrameLeft > 1
      <4>1. CASE tx_fsm = "START"
        <5>1. /\ FrameLeft = F - count_ticks
              /\ FrameLeft' = F - count_ticks'
          BY <1>5, <2>1, <4>1 DEF FrameLeft, F
        <5>2. F \in Nat /\ F > TICKS
          BY <1>1, <1>2, <1>3, <1>5
        <5>. QED BY <1>1, <1>2, <1>3, <3>1, <5>1, <5>2
      <4>2. CASE tx_fsm = "DATA"
        <5>1. /\ FrameLeft = (W - count_bits) * TICKS - count_ticks + P + S
              /\ FrameLeft' = (W - count_bits) * TICKS - count_ticks' + P + S
          BY <1>5, <2>1, <4>2 DEF FrameLeft, W, P, S
        <5>2. count_bits <= lcr.wls + 4 /\ (W - count_bits) * TICKS \in Nat
          BY <1>1, <4>2 DEF TxInv
        <5>. QED BY <1>1, <1>2, <1>3, <3>1, <5>1, <5>2
      <4>3. CASE tx_fsm = "PARITY"
        <5>1. /\ FrameLeft = TICKS + S - count_ticks
              /\ FrameLeft' = TICKS + S - count_ticks'
          BY <1>5, <2>1, <4>3 DEF FrameLeft, S
        <5>. QED BY <1>1, <1>3, <3>1, <5>1
      <4>4. CASE tx_fsm = "STOP"
        <5>1. /\ FrameLeft = S - count_bits * TICKS - count_ticks
              /\ FrameLeft' = S - count_bits * TICKS - count_ticks'
          BY <1>5, <2>1, <4>4 DEF FrameLeft, S
        <5>2. count_bits = 0 \/ (count_bits = 1 /\ lcr.stb = 1 /\ ~half_parity(lcr))
          BY <1>1, <4>4 DEF TxInv, HalfInv
        <5>. QED BY <1>1, <1>3, <3>1, <5>1, <5>2
      <4>. QED BY <2>4, <4>1, <4>2, <4>3, <4>4
    <3>. QED BY <3>2 DEF FrameTick
  <2>. QED BY <1>1, <2>2, <2>3, <2>4 DEF TxStates
<1>7. CASE count_ticks' = 0
  <2>1. count_ticks = TICKS - 1 /\ TxNextBit
    BY <1>7, BitEnds
  <2>2. /\ tx_fsm' = "START" => FrameLeft' = F
        /\ tx_fsm' = "IDLE" => FrameLeft' = 0
        /\ tx_fsm' = "STOP_HALF" => FrameLeft' = TICKS \div 2
        /\ tx_fsm' = "DATA" => FrameLeft' = (W - count_bits') * TICKS - 0 + P + S
        /\ tx_fsm' = "PARITY" => FrameLeft' = TICKS + S - 0
        /\ tx_fsm' = "STOP" => FrameLeft' = S - count_bits' * TICKS - 0
    <3>1. F - 0 = F
      BY <1>1, <1>2, <1>3, <1>5
    <3>2. tx_fsm' = "START" => FrameLeft' = F - 0
      BY <1>5, <1>7 DEF FrameLeft, F
    <3>. QED BY <1>5, <1>7, <3>1, <3>2 DEF FrameLeft, W, P, S
  <2>3. CASE tx_fsm = "START"
    <3>1. FrameLeft = F - count_ticks
      BY <2>3 DEF FrameLeft, F
    <3>2. FrameLeft' = (W - 0) * TICKS - 0 + P + S
      BY <2>1, <2>2, <2>3 DEF TxNextBit
    <3>3. (1 + W) * TICKS = W * TICKS + TICKS /\ W * TICKS \in Nat /\ W - 0 = W
      BY <1>1
    <3>. QED BY <1>1, <1>2, <1>3, <1>5, <2>1, <3>1, <3>2, <3>3 DEF FrameTick
  <2>4. CASE tx_fsm = "DATA"
    <3>1. FrameLeft = (W - count_bits) * TICKS - count_ticks + P + S
      BY <1>5, <2>4 DEF FrameLeft, W, P, S
    <3>2. count_bits <= lcr.wls + 4
      BY <2>4 DEF TxInv
    <3>3. CASE count_bits < lcr.wls + 4
      <4>1. FrameLeft' = (W - (count_bits + 1)) * TICKS - 0 + P + S
        BY <2>1, <2>2, <2>4, <3>3 DEF TxNextBit
      <4>2. (W - (count_bits + 1)) * TICKS = (W - count_bits) * TICKS - TICKS
            /\ (W - count_bits) * TICKS >= TICKS /\ (W - count_bits) * TICKS \in Nat
        BY <1>1, <3>3
      <4>. QED BY <1>1, <1>2, <1>3, <2>1, <3>1, <4>1, <4>2 DEF FrameTick
    <3>4. CASE count_bits = lcr.wls + 4
      <4>1. FrameLeft = TICKS - count_ticks + P + S
        <5>1. W - count_bits = 1 /\ 1 * TICKS = TICKS
          BY <1>1, <3>4
        <5>. QED BY <3>1, <5>1
      <4>2. FrameLeft' = P + S
        <5>1. count_bits' = 0 /\ 0 * TICKS = 0 /\ (tx_fsm' = IF lcr.pen THEN "PARITY" ELSE "STOP")
          BY <1>1, <2>1, <2>4, <3>4 DEF TxNextBit
        <5>. QED BY <1>1, <1>2, <1>3, <2>2, <5>1
      <4>. QED BY <1>1, <1>2, <1>3, <2>1, <4>1, <4>2 DEF FrameTick
    <3>. QED BY <1>1, <3>2, <3>3, <3>4
  <2>5. CASE tx_fsm = "PARITY"
    <3>1. FrameLeft = TICKS + S - count_ticks
      BY <2>5 DEF FrameLeft, S
    <3>2. FrameLeft' = S
      <4>1. count_bits' = 0 /\ 0 * TICKS = 0 /\ tx_fsm' = "STOP"
        BY <1>1, <2>1, <2>5 DEF TxNextBit
      <4>. QED BY <1>3, <2>2, <4>1
    <3>. QED BY <1>1, <1>3, <2>1, <3>1, <3>2 DEF FrameTick
  <2>6. CASE tx_fsm = "STOP"
    <3>1. FrameLeft = S - count_bits * TICKS - count_ticks
      BY <2>6 DEF FrameLeft, S
    <3>2. CASE half_parity(lcr)
      <4>1. tx_fsm' = "STOP_HALF" /\ count_bits = 0
        BY <1>7, <2>6, <3>2, BitEnds
      <4>2. FrameLeft = TICKS \div 2 + 1 /\ FrameLeft' = TICKS \div 2
        BY <1>1, <1>3, <2>1, <2>2, <3>1, <3>2, <4>1
      <4>. QED BY <1>1, <4>2 DEF FrameTick
    <3>3. CASE ~half_parity(lcr) /\ count_bits = lcr.stb
      <4>1. tx_fsm' \in {"START", "IDLE"}
        BY <1>7, <2>6, <3>3, BitEnds
      <4>2. FrameLeft = 1
        BY <1>1, <1>3, <2>1, <3>1, <3>3
      <4>. QED BY <1>5, <2>2, <4>1, <4>2 DEF FrameTick, F
    <3>4. CASE ~half_parity(lcr) /\ count_bits # lcr.stb
      <4>1. tx_fsm' = "STOP" /\ count_bits = 0 /\ count_bits' = 1 /\ lcr.stb = 1
        BY <1>7, <2>6, <3>4, BitEnds
      <4>2. FrameLeft = TICKS + 1 /\ FrameLeft' = TICKS
        BY <1>1, <1>3, <2>1, <2>2, <3>1, <3>4, <4>1
      <4>. QED BY <1>1, <4>2 DEF FrameTick
    <3>. QED BY <3>2, <3>3, <3>4
  <2>7. CASE tx_fsm \in {"IDLE", "STOP_HALF"}
    <3>1. tx_fsm' \in {"START", "IDLE"}
      BY <1>7, <2>7, BitEnds
    <3>2. FrameLeft \in {0, 1}
      <4>1. CASE tx_fsm = "IDLE"
        BY <4>1 DEF FrameLeft
      <4>2. CASE tx_fsm = "STOP_HALF"
        <5>1. FrameLeft = TICKS - count_ticks /\ count_ticks # 0
          BY <1>1, <2>1, <4>2 DEF FrameLeft
        <5>. QED BY <1>1, <2>1, <5>1
      <4>. QED BY <2>7, <4>1, <4>2
    <3>. QED BY <1>5, <2>2, <3>1, <3>2 DEF FrameTick, F
  <2>. QED BY <1>1, <2>3, <2>4, <2>5, <2>6, <2>7 DEF TxStates
<1>. QED BY <1>6, <1>7

\* FrameLasts: a frame of uart_tx.sv is as long as its start, data, parity and
\* stop bits, one and a half and two stop bits included, whatever is written,
\* cleared and changed between frames, for every oversampling rate.
THEOREM LoopFrameLasts ==
    LoopSpec => FrameLasts
<1>1. LoopInit => HalfInv
  BY DEF LoopInit, TxInit, HalfInv
<1>2. LoopInv /\ HalfInv /\ [LoopNext]_loopVars => [TxTick => FrameTick]_txVars
  BY TickTakesOne DEF LoopInv
<1>. QED BY <1>1, <1>2, HalfKept, LoopInvariant, PTL DEF LoopSpec, FrameLasts

-----------------------------------------------------------------------------
(* The loop and the receiver on any line *)

\* In the loop the receiver is the receiver on any line: what is proved of it
\* there (SpacedOut, EveryFrameEnds) holds here.
THEOREM LoopReceives ==
    LoopSpec => RxSpec
<1>1. LoopInit => AnyInit
  BY DEF LoopInit, TxInit, AnyInit
<1>2. LoopInv /\ [LoopNext]_loopVars => [RxNext]_<<lcr, rxVars>>
  <2>. SUFFICES ASSUME LoopInv, [LoopNext]_loopVars
                PROVE  RxNext \/ UNCHANGED <<lcr, rxVars>>
    OBVIOUS
  <2>1. CASE Tick
    <3>1. tx_dout \in Bit
      BY LevelIsBit DEF LoopInv
    <3>. QED BY <2>1, <3>1 DEF Tick, TxTick, RxNext, AnyTick
  <2>2. CASE \E c \in Chars : Write(c)
    BY <2>2 DEF Write, WriteThr
  <2>3. CASE \E l \in LineCtrls \ {lcr} : SetLine(l)
    BY <2>3 DEF SetLine, WriteLcr, RxNext, WriteLcrRx, rxVars
  <2>4. CASE Reset
    BY <2>4 DEF Reset, RxNext, MasterResetRx
  <2>5. CASE ClearBetweenFrames
    BY <2>5 DEF ClearBetweenFrames, Clear, ClearTx
  <2>6. CASE UNCHANGED loopVars
    BY <2>6 DEF loopVars
  <2>. QED BY <2>1, <2>2, <2>3, <2>4, <2>5, <2>6 DEF LoopNext
<1>. QED BY <1>1, <1>2, LoopInvInit, LoopInvariant, PTL DEF LoopSpec, RxSpec

\* The edge detector of uart.sv sees each word once: rx_done is low for seven
\* bits between two words of the loop, resets aside.
THEOREM LoopSpacedOut ==
    LoopSpec => SpacedOut
  BY LoopReceives, RxSpacedOut

-----------------------------------------------------------------------------
(* The queue of the scoreboard *)

Words == [0 .. 7 -> Bit]
Masks(q, l) == [i \in DOMAIN q |-> Masked(q[i], l)]

LEMMA MaskedIsWord ==
    ASSUME NEW c \in Chars, NEW l
    PROVE  Masked(c, l) \in Words
<1>1. c \in Words
  BY FrameAssumption DEF Words
<1>. QED BY <1>1 DEF Words, Masked, Bit

LEMMA MasksSeq ==
    ASSUME NEW q \in Seq(Chars), NEW l
    PROVE  /\ Masks(q, l) \in Seq(Words) /\ Len(Masks(q, l)) = Len(q)
           /\ \A i \in 1 .. Len(q) : Masks(q, l)[i] = Masked(q[i], l)
<1>1. \A i \in 1 .. Len(q) : q[i] \in Chars
  BY ElementOfSeq
<1>2. Len(q) \in Nat /\ DOMAIN q = 1 .. Len(q)
  BY LenProperties
<1>3. Masks(q, l) \in [1 .. Len(q) -> Words]
  BY <1>1, <1>2, MaskedIsWord DEF Masks
<1>. QED BY <1>2, <1>3 DEF Masks

LEMMA MasksAppend ==
    ASSUME NEW q \in Seq(Chars), NEW c \in Chars, NEW l
    PROVE  Masks(Append(q, c), l) = Append(Masks(q, l), Masked(c, l))
<1>1. Append(q, c) \in Seq(Chars) /\ Len(Append(q, c)) = Len(q) + 1 /\ Len(q) \in Nat
  BY AppendProperties, LenProperties
<1>2. Masked(c, l) \in Words /\ Masks(q, l) \in Seq(Words) /\ Len(Masks(q, l)) = Len(q)
  BY MasksSeq, MaskedIsWord
<1>3. /\ Append(Masks(q, l), Masked(c, l)) \in Seq(Words)
      /\ Len(Append(Masks(q, l), Masked(c, l))) = Len(q) + 1
  BY <1>2, AppendProperties
<1>4. ASSUME NEW i \in 1 .. Len(q) + 1
      PROVE  Masks(Append(q, c), l)[i] = Append(Masks(q, l), Masked(c, l))[i]
  <2>1. Masks(Append(q, c), l)[i] = Masked(Append(q, c)[i], l)
    BY <1>1, MasksSeq
  <2>2. CASE i = Len(q) + 1
    BY <1>1, <1>2, <2>1, <2>2, AppendProperties
  <2>3. CASE i \in 1 .. Len(q)
    <3>1. Append(q, c)[i] = q[i] /\ Append(Masks(q, l), Masked(c, l))[i] = Masks(q, l)[i]
      BY <1>2, <2>3, AppendProperties
    <3>2. Masks(q, l)[i] = Masked(q[i], l)
      BY <2>3, MasksSeq
    <3>. QED BY <2>1, <3>1, <3>2
  <2>4. i = Len(q) + 1 \/ i \in 1 .. Len(q)
    BY <1>1
  <2>. QED BY <2>2, <2>3, <2>4
<1>5. Masks(Append(q, c), l) \in Seq(Words) /\ Len(Masks(Append(q, c), l)) = Len(q) + 1
  BY <1>1, MasksSeq
<1>. QED BY <1>3, <1>4, <1>5, SeqEqual

LEMMA MasksHeadTail ==
    ASSUME NEW q \in Seq(Chars), q # << >>, NEW l
    PROVE  /\ Masks(q, l) # << >>
           /\ Head(Masks(q, l)) = Masked(Head(q), l)
           /\ Tail(Masks(q, l)) = Masks(Tail(q), l)
           /\ Masks(q, l) = <<Masked(Head(q), l)>> \o Masks(Tail(q), l)
           /\ SubSeq(Masks(q, l), 1, 1) = Masks(<<Head(q)>>, l)
<1>. DEFINE m == Masks(q, l)
<1>1. /\ Head(q) \in Chars /\ Tail(q) \in Seq(Chars) /\ Len(Tail(q)) = Len(q) - 1
      /\ Len(q) \in Nat /\ Len(q) >= 1 /\ Head(q) = q[1]
      /\ \A i \in 1 .. Len(q) - 1 : Tail(q)[i] = q[i + 1]
  BY QueueTail, HeadTailProperties
<1>2. m \in Seq(Words) /\ Len(m) = Len(q) /\ m # << >>
      /\ \A i \in 1 .. Len(q) : m[i] = Masked(q[i], l)
  BY <1>1, MasksSeq, EmptySeq
<1>3. /\ Head(m) = m[1] /\ Tail(m) \in Seq(Words) /\ Len(Tail(m)) = Len(q) - 1
      /\ \A i \in 1 .. Len(q) - 1 : Tail(m)[i] = m[i + 1]
  BY <1>2, HeadTailProperties
<1>4. /\ Masks(Tail(q), l) \in Seq(Words) /\ Len(Masks(Tail(q), l)) = Len(q) - 1
      /\ \A i \in 1 .. Len(q) - 1 : Masks(Tail(q), l)[i] = Masked(Tail(q)[i], l)
  BY <1>1, MasksSeq
<1>5. Head(m) = Masked(Head(q), l)
  BY <1>1, <1>2, <1>3
<1>6. Tail(m) = Masks(Tail(q), l)
  <2>1. \A i \in 1 .. Len(q) - 1 : Tail(m)[i] = Masks(Tail(q), l)[i]
    BY <1>1, <1>2, <1>3, <1>4
  <2>. QED BY <1>3, <1>4, <2>1, SeqEqual
<1>7. m = <<Head(m)>> \o Tail(m)
  BY <1>2, HeadTailProperties
<1>8. SubSeq(m, 1, 1) = Masks(<<Head(q)>>, l)
  <2>1. <<Head(q)>> \in Seq(Chars) /\ Len(<<Head(q)>>) = 1 /\ <<Head(q)>>[1] = Head(q)
    BY <1>1
  <2>2. /\ Masks(<<Head(q)>>, l) \in Seq(Words) /\ Len(Masks(<<Head(q)>>, l)) = 1
        /\ Masks(<<Head(q)>>, l)[1] = Masked(Head(q), l)
    BY <2>1, MasksSeq
  <2>3. /\ SubSeq(m, 1, 1) \in Seq(Words) /\ Len(SubSeq(m, 1, 1)) = 1
        /\ SubSeq(m, 1, 1)[1] = m[1]
    BY <1>1, <1>2, SubSeqProperties
  <2>4. \A i \in 1 .. 1 : SubSeq(m, 1, 1)[i] = Masks(<<Head(q)>>, l)[i]
    BY <1>1, <1>2, <2>2, <2>3
  <2>. QED BY <2>2, <2>3, <2>4, SeqEqual
<1>. QED BY <1>2, <1>5, <1>6, <1>7, <1>8

LEMMA MasksEmpty ==
    ASSUME NEW l
    PROVE  Masks(<< >>, l) = << >>
<1>1. << >> \in Seq(Chars) /\ Len(<< >>) = 0
  OBVIOUS
<1>2. Masks(<< >>, l) \in Seq(Words) /\ Len(Masks(<< >>, l)) = 0
  BY <1>1, MasksSeq
<1>. QED BY <1>2, EmptySeq

\* The word that is judged is whole in the shift register.
LEMMA JudgedIsWhole ==
    ASSUME LoopInv, Judging
    PROVE  expected # << >> /\ sout = Masked(Head(expected), lcr)
<1>1. expected # << >>
  BY DEF LoopInv, QueueInv
<1>2. PICK c \in [0 .. 7 -> Bit] : c = Head(expected)
  BY <1>1, WordIsChar
<1>3. rx_fsm = "STOP" /\ rx_ticks = count_ticks - 1 /\ rx_ticks < TICK_SAMPLE_D
  BY TickFacts DEF LoopInv, PhaseInv, Judging, Sending
<1>4. Shifted(c, WordLen(lcr))
  BY <1>2, <1>3, TickFacts DEF LoopInv, GotInv, Receiving, RxGot
<1>5. WordLen(lcr) \in 5 .. 8
  BY LcrFacts, LineTyped DEF LoopInv, TxInv
<1>6. ASSUME NEW i \in 0 .. 7
      PROVE  sout[i] = Masked(c, lcr)[i]
  <2>1. CASE i < WordLen(lcr)
    <3>1. rsr_data[i + 8 - WordLen(lcr)] = c[i]
      BY <1>4, <1>5, <2>1 DEF Shifted
    <3>. QED BY <2>1, <3>1 DEF sout, Masked
  <2>2. CASE ~(i < WordLen(lcr))
    BY <2>2 DEF sout, Masked
  <2>. QED BY <2>1, <2>2
<1>7. sout = Masked(c, lcr)
  BY <1>6 DEF sout, Masked
<1>. QED BY <1>1, <1>2, <1>7

\* The line owes the words that were written and have not come back.
LEMMA OwedIs ==
    ASSUME LoopInv
    PROVE  Owed = Masks(expected, lcr)
<1>1. expected \in Seq(Chars) /\ thr \in Seq(Chars)
  BY DEF LoopInv, TxInv, TxTypeOK
<1>2. CASE Judging
  <2>1. /\ expected # << >> /\ Tail(expected) = thr
        /\ sout = Masked(Head(expected), lcr)
    BY <1>2, JudgedIsWhole DEF LoopInv, QueueInv
  <2>2. Masks(expected, lcr) = <<Masked(Head(expected), lcr)>> \o Masks(Tail(expected), lcr)
    BY <1>1, <2>1, MasksHeadTail
  <2>. QED BY <1>2, <2>1, <2>2 DEF Owed, Masks
<1>3. CASE ~Judging
  <2>1. expected = thr
    BY <1>3 DEF LoopInv, QueueInv
  <2>2. Masks(thr, lcr) \in Seq(Words)
    BY <1>1, MasksSeq
  <2>3. << >> \o Masks(thr, lcr) = Masks(thr, lcr)
    BY <2>2, ConcatEmptySeq
  <2>. QED BY <1>3, <2>1, <2>3 DEF Owed, Masks
<1>. QED BY <1>2, <1>3

\* The invariant, in terms of the scoreboard.
QueueOnBoard == LoopInv /\ Owed = Masks(expected, lcr)

\* The scoreboard reads the frame format as the two sides of the line do.
LEMMA BoardFrame ==
    /\ \A c, l : Scoreboard!Masked(c, l) = Masked(c, l)
    /\ Scoreboard!LcrReset = LcrReset
  BY DEF Scoreboard!Masked, Scoreboard!WordLen, Masked, WordLen,
         Scoreboard!LcrReset, LcrReset

\* A tick hands over the head of the queue, or ends a handing-over, or does
\* nothing that the scoreboard sees.
LEMMA TickOnBoard ==
    ASSUME QueueOnBoard, QueueOnBoard', Tick
    PROVE  Scoreboard!read \/ Scoreboard!take \/ UNCHANGED <<lcr, Owed, Delivered>>
<1>1. LoopInv /\ LoopInv' /\ Owed = Masks(expected, lcr) /\ Owed' = Masks(expected', lcr')
  BY DEF QueueOnBoard
<1>2. lcr' = lcr /\ expected \in Seq(Chars) /\ faulty = FALSE /\ faulty' = FALSE
  BY <1>1 DEF Tick, TxTick, LoopInv
<1>3. rx_done' => ~rx_done
  BY TickFacts DEF Tick, RxTick, rx_done
<1>4. CASE rx_done'
  <2>1. /\ expected # << >> /\ expected' = Tail(expected)
        /\ rx_out' = [data |-> Masked(Head(expected), lcr), perr |-> FALSE, ferr |-> FALSE]
    BY <1>2, <1>3, <1>4 DEF Tick, Deliver
  <2>2. /\ Owed # << >> /\ Head(Owed) = Masked(Head(expected), lcr)
        /\ Tail(Owed) = Masks(Tail(expected), lcr)
    BY <1>1, <1>2, <2>1, MasksHeadTail
  <2>3. Owed' = Tail(Owed)
    BY <1>1, <1>2, <2>1, <2>2
  <2>4. Delivered = << >> /\ Delivered' = <<rx_out'>>
    BY <1>3, <1>4 DEF Delivered
  <2>5. rx_out' = Scoreboard!Clean(Head(Owed))
    BY <2>1, <2>2 DEF Scoreboard!Clean
  <2>. QED BY <1>2, <2>2, <2>3, <2>4, <2>5 DEF Scoreboard!read
<1>5. CASE ~rx_done'
  <2>1. expected' = expected
    BY <1>5 DEF Tick, Deliver
  <2>2. Owed' = Owed /\ Delivered' = << >>
    BY <1>1, <1>2, <1>5, <2>1 DEF Delivered
  <2>3. CASE rx_done
    <3>1. Delivered = <<rx_out>>
      BY <2>3 DEF Delivered
    <3>2. Delivered # << >>
      BY <3>1
    <3>. QED BY <1>2, <2>2, <3>2 DEF Scoreboard!take
  <2>4. CASE ~rx_done
    BY <1>2, <2>2, <2>4 DEF Delivered
  <2>. QED BY <2>3, <2>4
<1>. QED BY <1>4, <1>5

\* A word that THR accepts is masked and appended.
LEMMA WriteOnBoard ==
    ASSUME QueueOnBoard, QueueOnBoard', NEW c \in Chars, Write(c)
    PROVE  Scoreboard!write(c) \/ UNCHANGED <<lcr, Owed, Delivered>>
<1>1. LoopInv /\ LoopInv' /\ Owed = Masks(expected, lcr) /\ Owed' = Masks(expected', lcr')
  BY DEF QueueOnBoard
<1>2. /\ lcr' = lcr /\ expected \in Seq(Chars) /\ thr \in Seq(Chars)
      /\ Len(thr) \in Nat /\ Len(expected) \in Nat
  BY <1>1, LenProperties DEF Write, WriteThr, LoopInv, TxInv, TxTypeOK
<1>3. Delivered' = Delivered
  BY DEF Write, WriteThr, rxVars, Delivered, rx_done, rx_out, sout, err_p, err_f, voted_din
<1>4. CASE thr' = thr
  <2>1. expected' = expected
    BY <1>4 DEF Write
  <2>. QED BY <1>1, <1>2, <1>3, <2>1
<1>5. CASE thr' # thr
  <2>1. expected' = Append(expected, c) /\ Len(thr) < TxDepth
    BY <1>5 DEF Write, WriteThr
  <2>2. Owed' = Append(Owed, Masked(c, lcr))
    BY <1>1, <1>2, <2>1, MasksAppend
  <2>3. Len(Owed) = Len(expected)
    BY <1>1, <1>2, MasksSeq
  <2>4. Len(expected) <= Len(thr) + 1
    <3>1. CASE Judging
      <4>1. expected # << >> /\ Tail(expected) = thr
        BY <1>1, <3>1 DEF LoopInv, QueueInv
      <4>2. Len(thr) = Len(expected) - 1
        BY <1>2, <4>1, QueueTail
      <4>. QED BY <1>2, <4>2
    <3>2. CASE ~Judging
      <4>1. expected = thr
        BY <1>1, <3>2 DEF LoopInv, QueueInv
      <4>. QED BY <1>2, <4>1
    <3>. QED BY <3>1, <3>2
  <2>5. Len(Owed) < TxDepth + 1
    BY <1>2, <2>1, <2>3, <2>4, TxAssumption
  <2>6. Scoreboard!Masked(c, lcr) = Masked(c, lcr)
    BY BoardFrame
  <2>. QED BY <1>2, <1>3, <2>2, <2>5, <2>6 DEF Scoreboard!write
<1>. QED BY <1>4, <1>5

\* A clear between two frames leaves the word that is being judged, or none.
LEMMA ClearOnBoard ==
    ASSUME QueueOnBoard, QueueOnBoard', ClearBetweenFrames
    PROVE  Scoreboard!flush_queues
<1>1. LoopInv /\ LoopInv' /\ Owed = Masks(expected, lcr) /\ Owed' = Masks(expected', lcr')
  BY DEF QueueOnBoard
<1>2. /\ lcr' = lcr /\ expected \in Seq(Chars) /\ ~OnLine
      /\ Len(expected) \in Nat /\ thr' = << >>
  BY <1>1, LenProperties DEF ClearBetweenFrames, Clear, ClearTx, LoopInv
<1>3. Delivered' = Delivered
  BY DEF ClearBetweenFrames, Clear, ClearTx, rxVars, Delivered, rx_done, rx_out, sout,
         err_p, err_f, voted_din
<1>4. Len(Owed) = Len(expected) /\ Owed \in Seq(Words)
  BY <1>1, <1>2, MasksSeq
<1>5. CASE Judging
  <2>1. expected # << >> /\ Tail(expected) = thr
    BY <1>1, <1>5 DEF LoopInv, QueueInv
  <2>2. Len(expected) > Len(thr) /\ Len(expected) >= 1
    BY <1>2, <2>1, QueueTail
  <2>3. expected' = <<Head(expected)>>
    BY <2>1, <2>2 DEF ClearBetweenFrames, Clear
  <2>4. Owed' = SubSeq(Owed, 1, 1)
    BY <1>1, <1>2, <2>1, <2>3, MasksHeadTail
  <2>5. 1 \in 0 .. 1 /\ 1 <= Len(Owed)
    BY <1>2, <1>4, <2>2
  <2>. QED BY <1>2, <1>3, <2>4, <2>5 DEF Scoreboard!flush_queues
<1>6. CASE ~Judging
  <2>1. expected = thr
    BY <1>1, <1>6 DEF LoopInv, QueueInv
  <2>2. expected' = << >>
    BY <1>2, <2>1 DEF ClearBetweenFrames, Clear
  <2>3. Owed' = << >>
    BY <1>1, <1>2, <2>2, MasksEmpty
  <2>4. SubSeq(Owed, 1, 0) = << >>
    BY <1>4, SubSeqEmpty
  <2>5. 0 \in 0 .. 1 /\ 0 <= Len(Owed)
    BY <1>2, <1>4
  <2>. QED BY <1>2, <1>3, <2>3, <2>4, <2>5 DEF Scoreboard!flush_queues
<1>. QED BY <1>5, <1>6

LEMMA ResetOnBoard ==
    ASSUME QueueOnBoard', Reset
    PROVE  Scoreboard!flush
<1>1. Owed' = Masks(expected', lcr') /\ expected' = << >> /\ lcr' = Scoreboard!LcrReset
  BY BoardFrame DEF QueueOnBoard, Reset
<1>2. Owed' = << >>
  BY <1>1, MasksEmpty
<1>3. Delivered' = << >>
  BY DEF Reset, ResetRx, Delivered, rx_done
<1>. QED BY <1>1, <1>2, <1>3 DEF Scoreboard!flush

\* The settings of the line change with nothing in the queue.
LEMMA SetLineOnBoard ==
    ASSUME QueueOnBoard, QueueOnBoard', NEW l \in LineCtrls, SetLine(l)
    PROVE  Scoreboard!check_apb_lcr
<1>1. /\ Owed = Masks(expected, lcr) /\ Owed' = Masks(expected', lcr')
      /\ expected = << >> /\ expected' = << >> /\ lcr' = l /\ rx_fsm = "IDLE"
      /\ rx_fsm' = rx_fsm
  BY DEF QueueOnBoard, SetLine, WriteLcr, rxVars
<1>2. Owed = << >> /\ Owed' = << >>
  BY <1>1, MasksEmpty
<1>3. Delivered = << >> /\ Delivered' = << >>
  BY <1>1 DEF Delivered, rx_done
<1>. QED BY <1>1, <1>2, <1>3 DEF Scoreboard!check_apb_lcr

\* The UART in loopback implements the queue of the scoreboard: for all
\* characters, settings of the line, depths of the FIFO and oversampling rates.
THEOREM LoopIsQueue ==
    LoopSpec => ImplementsScoreboard
<1>1. LoopInv => QueueOnBoard
  BY OwedIs DEF QueueOnBoard
<1>2. LoopInit => Scoreboard!Init
  <2>. SUFFICES ASSUME LoopInit PROVE Scoreboard!Init
    OBVIOUS
  <2>1. LoopInv /\ expected = << >> /\ lcr \in LineCtrls /\ ~rx_done
    BY LoopInvInit DEF LoopInit, TxInit, RxInit, rx_done
  <2>2. Owed = << >> /\ Delivered = << >>
    BY <2>1, OwedIs, MasksEmpty DEF Delivered
  <2>. QED BY <2>1, <2>2 DEF Scoreboard!Init
<1>3. QueueOnBoard /\ QueueOnBoard' /\ [LoopNext]_loopVars
      => [Scoreboard!Next]_(Scoreboard!boardVars)
  <2>. SUFFICES ASSUME QueueOnBoard, QueueOnBoard', [LoopNext]_loopVars
                PROVE  Scoreboard!Next \/ UNCHANGED <<lcr, Owed, Delivered>>
    BY DEF Scoreboard!boardVars
  <2>1. CASE Tick
    BY <2>1, TickOnBoard DEF Scoreboard!Next
  <2>2. ASSUME NEW c \in Chars, Write(c)
        PROVE  Scoreboard!Next \/ UNCHANGED <<lcr, Owed, Delivered>>
    BY <2>2, WriteOnBoard DEF Scoreboard!Next
  <2>3. CASE \E l \in LineCtrls \ {lcr} : SetLine(l)
    BY <2>3, SetLineOnBoard DEF Scoreboard!Next
  <2>4. CASE Reset
    BY <2>4, ResetOnBoard DEF Scoreboard!Next
  <2>5. CASE ClearBetweenFrames
    BY <2>5, ClearOnBoard DEF Scoreboard!Next
  <2>6. CASE UNCHANGED loopVars
    <3>1. lcr' = lcr /\ expected' = expected /\ Owed' = Owed
      BY <2>6 DEF QueueOnBoard, loopVars
    <3>2. Delivered' = Delivered
      BY <2>6 DEF loopVars, rxVars, Delivered, rx_done, rx_out, sout, err_p, err_f, voted_din
    <3>. QED BY <3>1, <3>2
  <2>. QED BY <2>1, <2>2, <2>3, <2>4, <2>5, <2>6 DEF LoopNext
<1>. QED BY <1>1, <1>2, <1>3, LoopInvariant, PTL
         DEF LoopSpec, ImplementsScoreboard, Scoreboard!Spec
=============================================================================
