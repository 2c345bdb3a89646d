---------------------------- MODULE UartRxProofs ----------------------------
(***************************************************************************)
(* Lemmas about the frame format and about the receiver, for every sender: *)
(* what a tick does to a receiver that has voted right on each bit so far. *)
(* Then what the receiver does on a line that may show anything.           *)
(***************************************************************************)
EXTENDS UartRx, FiniteSetTheorems, TLAPS

-----------------------------------------------------------------------------
(* Frames *)

LEMMA LcrFacts ==
    ASSUME NEW l \in LineCtrl
    PROVE  /\ l.wls \in 0 .. 3 /\ l.stb \in Bit
           /\ l.pen \in BOOLEAN /\ l.eps \in BOOLEAN /\ l.sp \in BOOLEAN
           /\ WordLen(l) \in 5 .. 8 /\ WordLen(l) = l.wls + 5
  BY DEF LineCtrl, WordLen

\* The number of ones among the low bits of a character is a number.
LEMMA OnesNat ==
    ASSUME NEW c, NEW n \in Nat
    PROVE  Cardinality({i \in 0 .. n - 1 : c[i] = 1}) \in Nat
<1>1. IsFiniteSet(0 .. n - 1)
  BY FS_Interval
<1>2. {i \in 0 .. n - 1 : c[i] = 1} \in SUBSET (0 .. n - 1)
  OBVIOUS
<1>3. IsFiniteSet({i \in 0 .. n - 1 : c[i] = 1})
  BY <1>1, <1>2, FS_Subset
<1>. QED BY <1>3, FS_CardinalityType

LEMMA XorIsBit ==
    ASSUME NEW c, NEW n \in Nat
    PROVE  XorBits(c, n) \in Bit
  BY OnesNat DEF XorBits, Bit

\* The transmitter's parity is that of the reference frame.
LEMMA ParityIs ==
    ASSUME NEW c, NEW l \in LineCtrl
    PROVE  TxParity(c, l) = ParityOf(c, l) /\ TxParity(c, l) \in Bit
<1>1. CASE l.sp
  BY <1>1 DEF TxParity, ParityOf, Bit
<1>2. CASE ~l.sp
  <2>. DEFINE ones == Cardinality({i \in 0 .. l.wls + 4 : c[i] = 1})
  <2>1. 0 .. WordLen(l) - 1 = 0 .. l.wls + 4 /\ WordLen(l) \in Nat
    BY LcrFacts
  <2>2. ones \in Nat
    BY <2>1, OnesNat
  <2>3. XorBits(c, WordLen(l)) = ones % 2
    BY <2>1 DEF XorBits
  <2>. HIDE DEF ones
  <2>4. TxParity(c, l) = (IF l.eps THEN ones % 2 ELSE 1 - (ones % 2))
    BY <1>2, <2>3 DEF TxParity, BitNot
  <2>5. \A p \in Bit : ((ones + p) % 2 = 0 <=> l.eps) <=> p = TxParity(c, l)
    BY <2>2, <2>4, LcrFacts DEF Bit
  <2>6. TxParity(c, l) \in Bit
    BY <2>2, <2>4 DEF Bit
  <2>7. ParityOf(c, l) = CHOOSE p \in Bit : (ones + p) % 2 = 0 <=> l.eps
    BY <1>2 DEF ParityOf, ones
  <2>. QED BY <2>5, <2>6, <2>7
<1>. QED BY <1>1, <1>2

\* The receiver expects of a word the parity that was sent with its character.
LEMMA ParityAgrees ==
    ASSUME NEW c, NEW l \in LineCtrl
    PROVE  RxParity(Masked(c, l), l) = TxParity(c, l)
<1>1. {i \in 0 .. 8 - 1 : Masked(c, l)[i] = 1} = {i \in 0 .. WordLen(l) - 1 : c[i] = 1}
  BY LcrFacts DEF Masked
<1>2. XorBits(Masked(c, l), 8) = XorBits(c, WordLen(l))
  BY <1>1 DEF XorBits
<1>. QED BY <1>2, LcrFacts DEF RxParity, TxParity

-----------------------------------------------------------------------------
(* The receiver *)

\* The samples are taken within the bit, and its end leaves time to judge it.
LEMMA TickFacts ==
    /\ TICKS \in Nat /\ TICKS >= 8
    /\ TICK_SAMPLE_A \in Nat /\ TICK_SAMPLE_B \in Nat /\ TICK_SAMPLE_C \in Nat
    /\ 0 < TICK_SAMPLE_A /\ TICK_SAMPLE_A < TICK_SAMPLE_B
    /\ TICK_SAMPLE_B < TICK_SAMPLE_C
    /\ TICK_SAMPLE_D = TICK_SAMPLE_C + 1 /\ TICK_SAMPLE_D < TICKS - 1
  BY FrameAssumption DEF TICK_SAMPLE_A, TICK_SAMPLE_B, TICK_SAMPLE_C, TICK_SAMPLE_D,
                         TICK_DELTA

\* The level of the bit the receiver is at, when c is being sent.
RxBit(c) == CASE rx_fsm = "START"  -> 0
              [] rx_fsm = "DATA"   -> c[rx_bits]
              [] rx_fsm = "PARITY" -> TxParity(c, lcr)
              [] OTHER             -> 1

\* The shift register holds the first k bits of c in its high bits.
Shifted(c, k) == \A i \in 0 .. k - 1 : rsr_data[i + 8 - k] = c[i]

\* What the receiver has of a character c that it is receiving: the vote on
\* the bit, once its samples are taken, and all the bits before.
RxGot(c) ==
    /\ rx_ticks > TICK_SAMPLE_C => voted_din = RxBit(c)
    /\ rx_fsm = "START" => next_rx_fsm = IF voted_din = 0 THEN "DATA" ELSE "IDLE"
    /\ rx_fsm = "DATA" =>
          /\ rx_bits <= lcr.wls + 4
          /\ rx_bits < lcr.wls + 4 => next_rx_fsm = "DATA"
          /\ Shifted(c, IF rx_ticks = TICKS - 1 THEN rx_bits + 1 ELSE rx_bits)
    /\ rx_fsm \in {"PARITY", "STOP"} => Shifted(c, WordLen(lcr))
    /\ rx_fsm = "PARITY" => parity_bit = voted_din
    /\ rx_fsm = "STOP" /\ lcr.pen => parity_bit = TxParity(c, lcr)

LEMMA RxTyped ==
    ASSUME RxTypeOK, lcr \in LineCtrl, NEW din \in Bit, RxTick(din), lcr' = lcr
    PROVE  RxTypeOK' /\ voted_din' \in Bit
<1>1. rx_ticks' \in 0 .. TICKS - 1
  BY TickFacts DEF RxTypeOK, RxTick
<1>2. s0' \in Bit /\ s1' \in Bit /\ s2' \in Bit
  BY DEF RxTypeOK, RxTick, Sample
<1>3. voted_din \in Bit /\ voted_din' \in Bit
  BY DEF voted_din, Bit
<1>4. rx_bits' \in 0 .. 7
  BY DEF RxTypeOK, RxTick, RxFirstTick
<1>5. rx_fsm' \in RxStates /\ next_rx_fsm' \in RxStates
  <2>1. \A fsm, old \in RxStates : \A voted, last, pen, d :
           RxLatch(fsm, voted, last, pen, d, old) \in RxStates
    BY DEF RxStates, RxLatch, StartOrIdleRx
  <2>2. rx_fsm' \in RxStates
    BY <2>1 DEF RxTypeOK, RxTick, RxFirstTick
  <2>. QED BY <2>1, <2>2 DEF RxTypeOK, RxTick
<1>6. rsr_data' \in [0 .. 7 -> Bit]
  BY <1>3 DEF RxTypeOK, RxTick, RxLastTick
<1>7. parity_bit' \in Bit
  BY <1>3 DEF RxTypeOK, RxTick
<1>. QED BY <1>1, <1>2, <1>3, <1>4, <1>5, <1>6, <1>7 DEF RxTypeOK

\* The votes change only while the samples are taken.
LEMMA VotesKept ==
    ASSUME NEW din, RxTick(din),
           rx_ticks \notin {TICK_SAMPLE_A, TICK_SAMPLE_B, TICK_SAMPLE_C}
    PROVE  voted_din' = voted_din
  BY DEF RxTick, Sample, voted_din

\* A tick within a bit.
LEMMA RxWithin ==
    ASSUME RxTypeOK, lcr \in LineCtrl, NEW din \in Bit, RxTick(din), lcr' = lcr,
           rx_fsm # "IDLE", rx_ticks < TICKS - 1
    PROVE  /\ rx_fsm' = rx_fsm /\ rx_bits' = rx_bits /\ rx_ticks' = rx_ticks + 1
           /\ \A c \in [0 .. 7 -> Bit] :
                 RxGot(c) /\ (rx_ticks = TICK_SAMPLE_C => voted_din' = RxBit(c))
                 => RxGot(c)'
<1>1. rx_ticks \in Nat /\ rx_ticks' = rx_ticks + 1 /\ rx_ticks' # 0
  BY TickFacts DEF RxTick, RxTypeOK, init_ct
<1>2. rx_fsm' = rx_fsm /\ rx_bits' = rx_bits
  BY <1>1 DEF RxTick
<1>3. ASSUME NEW c \in [0 .. 7 -> Bit],
             RxGot(c), rx_ticks = TICK_SAMPLE_C => voted_din' = RxBit(c)
      PROVE  RxGot(c)'
  <2>1. RxBit(c)' = RxBit(c)
    BY <1>2 DEF RxBit
  <2>2. rx_ticks' > TICK_SAMPLE_C => voted_din' = RxBit(c)'
    <3>1. CASE rx_ticks = TICK_SAMPLE_C
      BY <1>3, <2>1, <3>1
    <3>2. CASE rx_ticks > TICK_SAMPLE_C
      <4>1. voted_din' = voted_din
        BY <3>2, VotesKept, TickFacts
      <4>. QED BY <1>3, <2>1, <3>2, <4>1 DEF RxGot
    <3>. QED BY <1>1, <3>1, <3>2, TickFacts
  <2>3. next_rx_fsm' = RxLatch(rx_fsm, voted_din', rx_last_bit, lcr.pen, din, next_rx_fsm)
    BY <1>2 DEF RxTick, rx_last_bit
  <2>4. rx_fsm' = "START" => next_rx_fsm' = IF voted_din' = 0 THEN "DATA" ELSE "IDLE"
    BY <1>2, <2>3 DEF RxLatch
  <2>5. ASSUME rx_fsm = "DATA"
        PROVE  /\ rx_bits' <= lcr'.wls + 4
               /\ rx_bits' < lcr'.wls + 4 => next_rx_fsm' = "DATA"
               /\ Shifted(c, IF rx_ticks = TICKS - 1 THEN rx_bits + 1 ELSE rx_bits)'
    <3>1. /\ rx_bits \in 0 .. 7 /\ rx_bits <= lcr.wls + 4
          /\ rx_bits < lcr.wls + 4 => next_rx_fsm = "DATA"
          /\ Shifted(c, rx_bits)
      BY <1>1, <1>3, <2>5 DEF RxGot, RxTypeOK
    <3>2. rx_bits < lcr.wls + 4 => next_rx_fsm' = "DATA"
      BY <2>3, <2>5, <3>1, LcrFacts DEF RxLatch, rx_last_bit
    <3>3. CASE rx_ticks' = TICKS - 1
      <4>1. rsr_data' = [i \in 0 .. 7 |-> IF i = 7 THEN voted_din ELSE rsr_data[i + 1]]
        BY <1>1, <2>5, <3>3 DEF RxTick, RxLastTick
      <4>2. voted_din = c[rx_bits]
        BY <1>1, <1>3, <2>5, <3>3, TickFacts DEF RxGot, RxBit
      <4>3. Shifted(c, rx_bits + 1)'
        BY <1>2, <3>1, <4>1, <4>2 DEF Shifted
      <4>. QED BY <1>2, <3>1, <3>2, <3>3, <4>3
    <3>4. CASE rx_ticks' # TICKS - 1
      <4>1. rsr_data' = rsr_data
        BY <3>4 DEF RxTick
      <4>2. Shifted(c, rx_bits)'
        BY <1>2, <3>1, <4>1 DEF Shifted
      <4>. QED BY <1>2, <3>1, <3>2, <3>4, <4>2
    <3>. QED BY <3>3, <3>4
  <2>6. rx_fsm \in {"PARITY", "STOP"} => Shifted(c, WordLen(lcr))'
    <3>1. rx_fsm # "DATA" => rsr_data' = rsr_data
      BY DEF RxTick, RxLastTick
    <3>. QED BY <1>3, <3>1 DEF RxGot, Shifted
  <2>7. parity_bit' = IF rx_fsm = "PARITY" THEN voted_din' ELSE parity_bit
    BY <1>2 DEF RxTick
  <2>. QED BY <1>2, <1>3, <2>2, <2>4, <2>5, <2>6, <2>7 DEF RxGot
<1>. QED BY <1>1, <1>2, <1>3

\* What follows the bit the receiver is at, when its last tick is over.
RxNextBit(din) ==
    CASE rx_fsm = "START"  -> rx_fsm' = "DATA" /\ rx_bits' = 0
      [] rx_fsm = "DATA"   -> IF rx_bits < lcr.wls + 4
                              THEN rx_fsm' = "DATA" /\ rx_bits' = rx_bits + 1
                              ELSE rx_fsm' = IF lcr.pen THEN "PARITY" ELSE "STOP"
      [] rx_fsm = "PARITY" -> rx_fsm' = "STOP"
      [] rx_fsm = "STOP"   -> rx_fsm' = IF din = 0 THEN "START" ELSE "IDLE"

\* The tick between two bits.
LEMMA RxBetween ==
    ASSUME RxTypeOK, lcr \in LineCtrl, NEW din \in Bit, RxTick(din), lcr' = lcr,
           rx_fsm # "IDLE", rx_ticks = TICKS - 1,
           NEW c \in [0 .. 7 -> Bit], rx_fsm # "STOP", RxGot(c)
    PROVE  rx_ticks' = 0 /\ RxNextBit(din) /\ RxGot(c)'
<1>1. rx_ticks' = 0 /\ RxFirstTick(din) /\ rsr_data' = rsr_data
  BY TickFacts DEF RxTick, init_ct
<1>2. voted_din = RxBit(c) /\ voted_din' = voted_din
  BY VotesKept, TickFacts DEF RxGot
<1>3. rx_fsm' = RxLatch(rx_fsm, voted_din, rx_last_bit, lcr.pen, din, next_rx_fsm)
  BY <1>1 DEF RxFirstTick
<1>4. next_rx_fsm' = RxLatch(rx_fsm', voted_din', rx_last_bit', lcr.pen, din, next_rx_fsm)
  BY DEF RxTick
<1>5. /\ rx_bits \in 0 .. 7 /\ rx_fsm \in RxStates
      /\ rx_bits' = IF rx_fsm = "DATA" THEN (rx_bits + 1) % 8 ELSE 0
      /\ lcr.wls \in 0 .. 3 /\ WordLen(lcr) = lcr.wls + 5 /\ lcr.pen \in BOOLEAN
  BY <1>1, LcrFacts DEF RxTypeOK, RxFirstTick
<1>6. ~(rx_ticks' > TICK_SAMPLE_C) /\ rx_ticks' # TICKS - 1
  BY <1>1, TickFacts
<1>7. parity_bit' = IF rx_fsm' = "PARITY" THEN voted_din' ELSE parity_bit
  BY DEF RxTick
<1>8. CASE rx_fsm = "START"
  <2>1. rx_fsm' = "DATA" /\ rx_bits' = 0 /\ next_rx_fsm = "DATA"
    BY <1>2, <1>3, <1>5, <1>8 DEF RxGot, RxBit, RxLatch
  <2>2. next_rx_fsm' = "DATA"
    BY <1>4, <1>5, <2>1 DEF RxLatch, rx_last_bit
  <2>3. Shifted(c, rx_bits)'
    BY <2>1 DEF Shifted
  <2>. QED BY <1>1, <1>5, <1>6, <1>8, <2>1, <2>2, <2>3 DEF RxGot, RxNextBit
<1>9. CASE rx_fsm = "DATA" /\ rx_bits < lcr.wls + 4
  <2>1. rx_fsm' = "DATA" /\ next_rx_fsm = "DATA" /\ rx_bits' = rx_bits + 1
    BY <1>3, <1>5, <1>9 DEF RxGot, RxLatch, rx_last_bit
  <2>2. rx_bits' < lcr.wls + 4 => next_rx_fsm' = "DATA"
    BY <1>4, <1>5, <2>1 DEF RxLatch, rx_last_bit
  <2>3. Shifted(c, rx_bits)'
    BY <1>1, <1>5, <1>9, <2>1 DEF RxGot, Shifted
  <2>. QED BY <1>1, <1>5, <1>6, <1>9, <2>1, <2>2, <2>3 DEF RxGot, RxNextBit
<1>10. CASE rx_fsm = "DATA" /\ ~(rx_bits < lcr.wls + 4)
  <2>1. rx_bits = lcr.wls + 4 /\ rx_last_bit
    BY <1>5, <1>10 DEF RxGot, rx_last_bit
  <2>2. rx_fsm' = IF lcr.pen THEN "PARITY" ELSE "STOP"
    BY <1>3, <1>10, <2>1 DEF RxLatch
  <2>3. Shifted(c, WordLen(lcr))'
    BY <1>1, <1>5, <1>10, <2>1 DEF RxGot, Shifted
  <2>. QED BY <1>1, <1>5, <1>6, <1>7, <1>10, <2>1, <2>2, <2>3 DEF RxGot, RxNextBit
<1>11. CASE rx_fsm = "PARITY"
  <2>1. rx_fsm' = "STOP"
    BY <1>3, <1>11 DEF RxLatch
  <2>2. Shifted(c, WordLen(lcr))'
    BY <1>1, <1>11 DEF RxGot, Shifted
  <2>3. parity_bit' = TxParity(c, lcr)
    BY <1>2, <1>7, <1>11, <2>1 DEF RxGot, RxBit
  <2>. QED BY <1>1, <1>6, <1>11, <2>1, <2>2, <2>3 DEF RxGot, RxNextBit
<1>. QED BY <1>5, <1>8, <1>9, <1>10, <1>11 DEF RxStates

\* A start bit is noticed by an idle receiver, and by one at the end of a stop
\* bit; of its character the receiver has nothing yet.
LEMMA RxStart ==
    ASSUME RxTypeOK, NEW din \in Bit, RxTick(din), lcr' = lcr,
           rx_fsm \in {"IDLE", "STOP"}, rx_ticks = TICKS - 1, din = 0,
           NEW c
    PROVE  rx_ticks' = 0 /\ rx_fsm' = "START" /\ RxGot(c)'
<1>1. rx_ticks' = 0 /\ RxFirstTick(din)
  BY TickFacts DEF RxTick, init_ct
<1>2. rx_fsm' = "START"
  BY <1>1 DEF RxFirstTick, RxLatch, StartOrIdleRx
<1>3. next_rx_fsm' = IF voted_din' = 0 THEN "DATA" ELSE "IDLE"
  BY <1>2 DEF RxTick, RxLatch
<1>. QED BY <1>1, <1>2, <1>3, TickFacts DEF RxGot

\* While the line is high an idle receiver stays idle, and one at the end of a
\* stop bit becomes idle.
LEMMA RxRest ==
    ASSUME RxTypeOK, NEW din \in Bit, RxTick(din), lcr' = lcr, din = 1,
           rx_fsm = "IDLE" \/ (rx_fsm = "STOP" /\ rx_ticks = TICKS - 1)
    PROVE  /\ rx_fsm' = "IDLE"
           /\ rx_ticks' = IF rx_fsm = "IDLE" THEN TICKS - 1 ELSE 0
<1>1. CASE rx_fsm = "IDLE"
  BY <1>1, TickFacts DEF RxTick, init_ct
<1>2. CASE rx_fsm = "STOP" /\ rx_ticks = TICKS - 1
  <2>1. rx_ticks' = 0 /\ RxFirstTick(din)
    BY <1>2, TickFacts DEF RxTick, init_ct
  <2>. QED BY <1>2, <2>1 DEF RxFirstTick, RxLatch, StartOrIdleRx
<1>. QED BY <1>1, <1>2

\* What a receiver delivers, after a step, that has got all of a character and
\* a stop bit.
LEMMA RxDelivers ==
    ASSUME lcr' \in LineCtrl, NEW c \in [0 .. 7 -> Bit], RxGot(c)', rx_done'
    PROVE  rx_out' = [data |-> Masked(c, lcr'), perr |-> FALSE, ferr |-> FALSE]
<1>1. rx_fsm' = "STOP" /\ rx_ticks' > TICK_SAMPLE_C
  BY TickFacts DEF rx_done
<1>2. voted_din' = 1
  BY <1>1 DEF RxGot, RxBit
<1>3. Shifted(c, WordLen(lcr))' /\ WordLen(lcr') \in 5 .. 8
  BY <1>1, LcrFacts DEF RxGot
<1>4. sout' = Masked(c, lcr')
  BY <1>3 DEF sout, Masked, Shifted
<1>5. err_f' = FALSE
  BY <1>2 DEF err_f
<1>6. err_p' = FALSE
  BY <1>1, <1>4, ParityAgrees DEF err_p, RxGot
<1>. QED BY <1>4, <1>5, <1>6 DEF rx_out

-----------------------------------------------------------------------------
(* The receiver on any line *)

\* What the latch of the state machine holds where its cases do not assign it:
\* nothing that could end the data bits before the fifth, or restart a frame.
OpenInv ==
    /\ RxTypeOK /\ lcr \in LineCtrls
    /\ rx_fsm = "START" => next_rx_fsm = IF voted_din = 0 THEN "DATA" ELSE "IDLE"
    /\ rx_fsm = "DATA" => /\ next_rx_fsm \in {"DATA", "PARITY", "STOP"}
                          /\ rx_bits < 4 => next_rx_fsm = "DATA"

\* What follows the bit the receiver is at, whatever was on the line.
Follows ==
    CASE rx_fsm = "START"  -> rx_fsm' = "IDLE" \/ (rx_fsm' = "DATA" /\ rx_bits' = 0)
      [] rx_fsm = "DATA"   -> \/ /\ rx_fsm' = "DATA" /\ rx_bits' = (rx_bits + 1) % 8
                                 /\ rx_bits # lcr.wls + 4
                              \/ rx_fsm' \in {"PARITY", "STOP"} /\ rx_bits >= 4
      [] rx_fsm = "PARITY" -> rx_fsm' = "STOP"
      [] rx_fsm = "STOP"   -> rx_fsm' \in {"START", "IDLE"}

\* The four kinds of a tick.
LEMMA OpenMoves ==
    ASSUME OpenInv, NEW din \in Bit, RxTick(din), lcr' = lcr
    PROVE  \/ rx_fsm = "IDLE" /\ rx_fsm' = "IDLE"
           \/ rx_fsm = "IDLE" /\ rx_fsm' = "START" /\ rx_ticks' = 0
           \/ /\ rx_fsm # "IDLE" /\ rx_ticks < TICKS - 1
              /\ rx_fsm' = rx_fsm /\ rx_bits' = rx_bits /\ rx_ticks' = rx_ticks + 1
           \/ /\ rx_fsm # "IDLE" /\ rx_ticks = TICKS - 1
              /\ rx_ticks' = 0 /\ Follows
<1>1. /\ RxTypeOK /\ rx_ticks \in 0 .. TICKS - 1 /\ rx_bits \in 0 .. 7
      /\ rx_fsm \in RxStates /\ lcr \in LineCtrl /\ lcr.wls \in 0 .. 3
  BY FrameAssumption, LcrFacts DEF OpenInv, RxTypeOK
<1>2. CASE rx_fsm = "IDLE"
  <2>1. rx_ticks' = 0 => rx_fsm' \in {"START", "IDLE"}
    BY <1>2 DEF RxTick, RxFirstTick, RxLatch, StartOrIdleRx
  <2>2. rx_ticks' # 0 => rx_fsm' = "IDLE"
    BY <1>2 DEF RxTick
  <2>. QED BY <1>2, <2>1, <2>2
<1>3. CASE rx_fsm # "IDLE" /\ rx_ticks < TICKS - 1
  BY <1>1, <1>3, RxWithin
<1>4. CASE rx_fsm # "IDLE" /\ rx_ticks = TICKS - 1
  <2>1. rx_ticks' = 0 /\ RxFirstTick(din)
    BY <1>4, TickFacts DEF RxTick, init_ct
  <2>2. /\ rx_fsm' = RxLatch(rx_fsm, voted_din, rx_last_bit, lcr.pen, din, next_rx_fsm)
        /\ rx_bits' = IF rx_fsm = "DATA" THEN (rx_bits + 1) % 8 ELSE 0
    BY <2>1 DEF RxFirstTick
  <2>3. ASSUME rx_fsm = "DATA" PROVE Follows
    <3>1. CASE rx_last_bit
      BY <1>1, <2>2, <2>3, <3>1 DEF RxLatch, Follows, rx_last_bit
    <3>2. CASE ~rx_last_bit
      <4>1. rx_fsm' = next_rx_fsm /\ rx_bits' = (rx_bits + 1) % 8 /\ rx_bits # lcr.wls + 4
        BY <1>1, <2>2, <2>3, <3>2 DEF RxLatch, rx_last_bit
      <4>2. next_rx_fsm \in {"DATA", "PARITY", "STOP"} /\ (rx_bits < 4 => next_rx_fsm = "DATA")
        BY <2>3 DEF OpenInv
      <4>. QED BY <1>1, <2>3, <4>1, <4>2 DEF Follows
    <3>. QED BY <3>1, <3>2
  <2>4. ASSUME rx_fsm # "DATA" PROVE Follows
    BY <1>1, <1>4, <2>2, <2>4 DEF RxLatch, Follows, StartOrIdleRx, RxStates
  <2>. QED BY <1>4, <2>1, <2>3, <2>4
<1>. QED BY <1>1, <1>2, <1>3, <1>4, TickFacts

\* The latch of the state machine, a tick later.
LEMMA OpenTick ==
    ASSUME OpenInv, NEW din \in Bit, RxTick(din), lcr' = lcr
    PROVE  OpenInv'
<1>1. /\ RxTypeOK /\ RxTypeOK' /\ rx_fsm \in RxStates /\ rx_fsm' \in RxStates
      /\ lcr \in LineCtrl /\ lcr' \in LineCtrls /\ lcr.wls \in 0 .. 3 /\ lcr.pen \in BOOLEAN
      /\ rx_bits \in 0 .. 7 /\ rx_bits' \in 0 .. 7 /\ rx_ticks \in 0 .. TICKS - 1
  BY FrameAssumption, LcrFacts, RxTyped DEF OpenInv, RxTypeOK
<1>2. next_rx_fsm' = RxLatch(rx_fsm', voted_din', rx_last_bit', lcr.pen, din, next_rx_fsm)
  BY DEF RxTick
<1>3. rx_fsm' = "START" => next_rx_fsm' = IF voted_din' = 0 THEN "DATA" ELSE "IDLE"
  BY <1>2 DEF RxLatch
<1>4. ASSUME rx_fsm' = "DATA"
      PROVE  /\ next_rx_fsm' \in {"DATA", "PARITY", "STOP"}
             /\ rx_bits' < 4 => next_rx_fsm' = "DATA"
  <2>1. /\ next_rx_fsm \in {"DATA", "PARITY", "STOP"}
        /\ rx_bits' < 4 => next_rx_fsm = "DATA"
    <3>1. CASE rx_ticks' # 0
      <4>1. rx_fsm = "DATA" /\ rx_bits' = rx_bits
        BY <1>4, <3>1 DEF RxTick
      <4>. QED BY <4>1 DEF OpenInv
    <3>2. CASE rx_ticks' = 0
      <4>1. rx_fsm' = RxLatch(rx_fsm, voted_din, rx_last_bit, lcr.pen, din, next_rx_fsm)
        BY <3>2 DEF RxTick, RxFirstTick
      <4>2. CASE rx_fsm = "START"
        BY <1>4, <4>1, <4>2 DEF RxLatch, OpenInv
      <4>3. CASE rx_fsm = "DATA"
        BY <1>4, <4>1, <4>3 DEF RxLatch
      <4>4. rx_fsm \notin {"IDLE", "PARITY", "STOP"}
        BY <1>4, <4>1 DEF RxLatch, StartOrIdleRx
      <4>. QED BY <1>1, <4>2, <4>3, <4>4 DEF RxStates
    <3>. QED BY <3>1, <3>2
  <2>2. next_rx_fsm' = IF ~rx_last_bit' THEN next_rx_fsm
                       ELSE IF lcr.pen THEN "PARITY" ELSE "STOP"
    BY <1>2, <1>4 DEF RxLatch
  <2>3. rx_bits' < 4 => ~rx_last_bit'
    BY <1>1 DEF rx_last_bit
  <2>. QED BY <2>1, <2>2, <2>3
<1>. QED BY <1>1, <1>3, <1>4 DEF OpenInv

LEMMA OpenInvInit ==
    AnyInit => OpenInv
  BY TickFacts DEF AnyInit, RxInit, OpenInv, RxTypeOK, RxStates, Bit

LEMMA OpenInvStep ==
    OpenInv /\ [RxNext]_<<lcr, rxVars>> => OpenInv'
<1>. SUFFICES ASSUME OpenInv, [RxNext]_<<lcr, rxVars>> PROVE OpenInv'
  OBVIOUS
<1>1. CASE AnyTick
  BY <1>1, OpenTick DEF AnyTick
<1>2. ASSUME NEW l \in LineCtrls, WriteLcrRx(l)
      PROVE  OpenInv'
  <2>1. /\ RxTypeOK /\ rx_fsm \in RxStates /\ l \in LineCtrl /\ l.wls \in 0 .. 3
        /\ l.pen \in BOOLEAN /\ rx_bits \in 0 .. 7 /\ lcr' = l
        /\ UNCHANGED <<rx_fsm, rx_ticks, rx_bits, s0, s1, s2, rsr_data, parity_bit>>
        /\ voted_din' = voted_din
    BY <1>2, FrameAssumption, LcrFacts DEF OpenInv, RxTypeOK, WriteLcrRx, voted_din
  <2>2. next_rx_fsm' = IF rx_fsm \in {"IDLE", "STOP"} THEN next_rx_fsm
                       ELSE RxLatch(rx_fsm, voted_din, rx_last_bit', l.pen, 1, next_rx_fsm)
    BY <1>2 DEF WriteLcrRx
  <2>3. next_rx_fsm' \in RxStates
    BY <2>1, <2>2 DEF RxLatch, RxTypeOK, RxStates
  <2>4. rx_fsm = "START" => next_rx_fsm' = IF voted_din = 0 THEN "DATA" ELSE "IDLE"
    BY <2>2 DEF RxLatch
  <2>5. rx_bits < 4 => ~rx_last_bit'
    BY <2>1 DEF rx_last_bit
  <2>6. rx_fsm = "DATA" => /\ next_rx_fsm' \in {"DATA", "PARITY", "STOP"}
                           /\ rx_bits < 4 => next_rx_fsm' = "DATA"
    BY <2>1, <2>2, <2>5 DEF RxLatch, OpenInv
  <2>. QED BY <2>1, <2>3, <2>4, <2>6 DEF OpenInv, RxTypeOK
<1>3. CASE MasterResetRx
  BY <1>3, ResetAssumption, TickFacts DEF MasterResetRx, ResetRx, OpenInv, RxTypeOK, RxStates, Bit
<1>4. CASE UNCHANGED <<lcr, rxVars>>
  BY <1>4 DEF rxVars, OpenInv, RxTypeOK, voted_din
<1>. QED BY <1>1, <1>2, <1>3, <1>4 DEF RxNext

THEOREM OpenInvariant ==
    RxSpec => []OpenInv
  BY OpenInvInit, OpenInvStep, PTL DEF RxSpec

\* The registers of uart_rx.sv keep to their widths on any line and through any
\* writes of LCR, in the middle of a frame too.
THEOREM RxTypeCorrect ==
    RxSpec => []RxTypeOK
<1>1. OpenInv => RxTypeOK
  BY DEF OpenInv
<1>. QED BY <1>1, OpenInvariant, PTL

\* Two words are handed over at least seven bits apart, whatever the line shows
\* and whenever LCR is written.
THEOREM RxSpacedOut ==
    RxSpec => SpacedOut
<1>1. ASSUME OpenInv, AnyTick
      PROVE  IF rx_done' /\ ~rx_done THEN Ahead = 1 /\ Ahead' = 7 * TICKS
                                     ELSE Ahead' >= Ahead - 1
  <2>1. PICK din \in Bit : RxTick(din) /\ lcr' = lcr
    BY <1>1 DEF AnyTick
  <2>2. /\ rx_ticks \in 0 .. TICKS - 1 /\ rx_ticks' \in 0 .. TICKS - 1
        /\ rx_bits \in 0 .. 7 /\ rx_bits' \in 0 .. 7
        /\ rx_fsm \in RxStates /\ rx_fsm' \in RxStates
        /\ TICKS \in Nat /\ TICKS >= 8 /\ TICK_SAMPLE_D \in Nat /\ TICK_SAMPLE_D < TICKS - 1
        /\ TICK_SAMPLE_D > 0
    BY <1>1, <2>1, OpenTick, TickFacts DEF OpenInv, RxTypeOK
  <2>3. CASE rx_fsm = "IDLE" /\ rx_fsm' = "IDLE"
    BY <2>2, <2>3 DEF Ahead, rx_done
  <2>4. CASE rx_fsm = "IDLE" /\ rx_fsm' = "START" /\ rx_ticks' = 0
    BY <2>2, <2>4 DEF Ahead, rx_done
  <2>5. CASE /\ rx_fsm # "IDLE" /\ rx_ticks < TICKS - 1
             /\ rx_fsm' = rx_fsm /\ rx_bits' = rx_bits /\ rx_ticks' = rx_ticks + 1
    BY <2>2, <2>5 DEF Ahead, rx_done, RxStates
  <2>6. CASE /\ rx_fsm # "IDLE" /\ rx_ticks = TICKS - 1
             /\ rx_ticks' = 0 /\ Follows
    <3>1. ~rx_done'
      BY <2>2, <2>6 DEF rx_done
    <3>2. CASE rx_fsm = "START"
      <4>1. Ahead = 5 * TICKS + TICK_SAMPLE_D + 1
        BY <2>2, <2>6, <3>2 DEF Ahead
      <4>2. \/ Ahead' = 6 * TICKS + TICK_SAMPLE_D + 1
            \/ Ahead' = 5 * TICKS + TICK_SAMPLE_D
        <5>1. rx_fsm' = "IDLE" => Ahead' = 6 * TICKS + TICK_SAMPLE_D + 1
          BY DEF Ahead
        <5>2. rx_fsm' = "DATA" /\ rx_bits' = 0 => Ahead' = 5 * TICKS + TICK_SAMPLE_D
          BY <2>2, <2>6 DEF Ahead
        <5>. QED BY <2>6, <3>2, <5>1, <5>2 DEF Follows
      <4>. QED BY <2>2, <3>1, <4>1, <4>2
    <3>3. CASE rx_fsm \in {"PARITY", "STOP"}
      <4>1. /\ rx_fsm = "PARITY" => Ahead = TICK_SAMPLE_D + 1
            /\ rx_fsm = "STOP" => Ahead = 6 * TICKS + TICK_SAMPLE_D + 1
        BY <2>2, <2>6 DEF Ahead
      <4>2. /\ rx_fsm' = "STOP" => Ahead' = TICK_SAMPLE_D
            /\ rx_fsm' = "START" => Ahead' = 6 * TICKS + TICK_SAMPLE_D
            /\ rx_fsm' = "IDLE" => Ahead' = 6 * TICKS + TICK_SAMPLE_D + 1
        BY <2>2, <2>6 DEF Ahead
      <4>3. /\ rx_fsm = "PARITY" => rx_fsm' = "STOP"
            /\ rx_fsm = "STOP" => rx_fsm' \in {"START", "IDLE"}
        BY <2>6 DEF Follows
      <4>. QED BY <2>2, <3>1, <3>3, <4>1, <4>2, <4>3
    <3>4. CASE rx_fsm = "DATA" /\ rx_fsm' = "DATA"
      <4>1. rx_bits' = IF rx_bits = 7 THEN 0 ELSE rx_bits + 1
        BY <2>2, <2>6, <3>4 DEF Follows
      <4>2. TICKS \in {8, 16, 32}
        BY FrameAssumption
      <4>. QED BY <2>2, <2>6, <3>1, <3>4, <4>1, <4>2 DEF Ahead
    <3>5. CASE rx_fsm = "DATA" /\ rx_fsm' # "DATA"
      <4>1. rx_fsm' \in {"PARITY", "STOP"} /\ rx_bits >= 4
        BY <2>6, <3>5 DEF Follows
      <4>2. Ahead = TICK_SAMPLE_D + 1
        <5>1. (IF rx_bits <= 4 THEN 5 - rx_bits ELSE 1) = 1
          BY <2>2, <4>1
        <5>. QED BY <2>2, <2>6, <3>5, <5>1 DEF Ahead
      <4>3. Ahead' \in {TICKS + TICK_SAMPLE_D, TICK_SAMPLE_D}
        BY <2>2, <2>6, <4>1 DEF Ahead
      <4>. QED BY <2>2, <3>1, <4>2, <4>3
    <3>. QED BY <2>2, <2>6, <3>2, <3>3, <3>4, <3>5 DEF RxStates
  <2>. QED BY <1>1, <2>1, <2>3, <2>4, <2>5, <2>6, OpenMoves
<1>2. OpenInv /\ [RxNext]_<<lcr, rxVars>> =>
         [AnyTick => IF rx_done' /\ ~rx_done
                     THEN Ahead = 1 /\ Ahead' = 7 * TICKS
                     ELSE Ahead' >= Ahead - 1]_<<lcr, rxVars>>
  BY <1>1
<1>. QED BY <1>2, OpenInvariant, PTL DEF RxSpec, SpacedOut

\* On any line, and with whatever a write of LCR has left in the latch, a frame
\* comes to an end: each tick brings the receiver nearer to it.
THEOREM RxEveryFrameEnds ==
    RxSpec => EveryFrameEnds
<1>1. ASSUME OpenInv, AnyTick, Remaining > 1
      PROVE  Remaining' < Remaining
  <2>1. PICK din \in Bit : RxTick(din) /\ lcr' = lcr
    BY <1>1 DEF AnyTick
  <2>2. /\ rx_ticks \in 0 .. TICKS - 1 /\ rx_ticks' \in 0 .. TICKS - 1
        /\ rx_bits \in 0 .. 7 /\ lcr.wls \in 0 .. 3
        /\ rx_fsm \in RxStates /\ TICKS \in {8, 16, 32}
    BY <1>1, FrameAssumption, LcrFacts, TickFacts, <2>1, OpenTick DEF OpenInv, RxTypeOK
  <2>3. rx_fsm # "IDLE"
    BY <1>1 DEF Remaining
  <2>4. CASE /\ rx_ticks < TICKS - 1
             /\ rx_fsm' = rx_fsm /\ rx_bits' = rx_bits /\ rx_ticks' = rx_ticks + 1
    BY <2>1, <2>2, <2>3, <2>4 DEF Remaining, RxStates
  <2>5. CASE rx_ticks = TICKS - 1 /\ rx_ticks' = 0 /\ Follows
    <3>1. rx_fsm # "STOP"
      BY <1>1, <2>2, <2>5 DEF Remaining
    <3>2. CASE rx_fsm = "START"
      <4>1. Remaining = 10 * TICKS + 1
        BY <2>2, <2>5, <3>2 DEF Remaining
      <4>2. rx_fsm' = "IDLE" \/ (rx_fsm' = "DATA" /\ rx_bits' = 0)
        BY <2>5, <3>2 DEF Follows
      <4>3. rx_fsm' = "IDLE" => Remaining' = 0
        BY DEF Remaining
      <4>4. rx_fsm' = "DATA" /\ rx_bits' = 0 => Remaining' \in Int /\ Remaining' <= 10 * TICKS
        BY <2>1, <2>2, <2>5 DEF Remaining
      <4>. QED BY <2>2, <4>1, <4>2, <4>3, <4>4
    <3>3. CASE rx_fsm = "PARITY"
      <4>1. Remaining = TICKS + 1 /\ Remaining' = TICKS
        BY <2>2, <2>5, <3>3 DEF Remaining, Follows
      <4>. QED BY <2>2, <4>1
    <3>4. CASE rx_fsm = "DATA" /\ rx_fsm' = "DATA"
      <4>. DEFINE m == (lcr.wls + 4 - rx_bits) % 8
      <4>1. m' = m - 1 /\ m \in 1 .. 7
        BY <2>1, <2>2, <2>5, <3>4 DEF Follows
      <4>2. Remaining = (m + 3) * TICKS - rx_ticks /\ Remaining' = (m' + 3) * TICKS - rx_ticks'
        BY <3>4 DEF Remaining
      <4>. HIDE DEF m
      <4>. QED BY <2>2, <2>5, <4>1, <4>2
    <3>5. CASE rx_fsm = "DATA" /\ rx_fsm' # "DATA"
      <4>. DEFINE m == (lcr.wls + 4 - rx_bits) % 8
      <4>1. rx_fsm' \in {"PARITY", "STOP"} /\ m \in 0 .. 7
        BY <2>2, <2>5, <3>5 DEF Follows
      <4>2. Remaining = (m + 3) * TICKS - rx_ticks
        BY <3>5 DEF Remaining
      <4>3. Remaining' <= 2 * TICKS
        BY <2>2, <2>5, <4>1 DEF Remaining
      <4>4. Remaining' \in Int
        BY <2>2, <2>5, <4>1 DEF Remaining
      <4>. HIDE DEF m
      <4>. QED BY <2>2, <2>5, <4>1, <4>2, <4>3, <4>4
    <3>. QED BY <2>2, <2>3, <3>1, <3>2, <3>3, <3>4, <3>5 DEF RxStates
  <2>. QED BY <1>1, <2>1, <2>3, <2>4, <2>5, OpenMoves
<1>2. OpenInv /\ [RxNext]_<<lcr, rxVars>> =>
         [AnyTick /\ Remaining > 1 => Remaining' < Remaining]_<<lcr, rxVars>>
  BY <1>1
<1>. QED BY <1>2, OpenInvariant, PTL DEF RxSpec, EveryFrameEnds
=============================================================================
