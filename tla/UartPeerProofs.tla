--------------------------- MODULE UartPeerProofs ---------------------------
(***************************************************************************)
(* The receiver understands an external transmitter with a clock of its    *)
(* own and a noisy line, for every set of characters and of line settings, *)
(* every oversampling rate, and every drift and pause within               *)
(* ToleranceAssumption.  The inductive invariant measures, in ticks, how   *)
(* far the receiver lags behind the frame.                                 *)
(***************************************************************************)
EXTENDS UartPeer, UartRxProofs, SequenceTheorems

\* The ticks of the frame that are over, for the peer.
Elapsed == (index + 1) * TICKS + drift - left

\* The index within the frame of the bit the receiver is at.
RxIndex == CASE rx_fsm = "START"  -> 0
             [] rx_fsm = "DATA"   -> 1 + rx_bits
             [] rx_fsm = "PARITY" -> WordLen(lcr) + 1
             [] OTHER             -> StopIndex

\* The ticks the receiver is behind, when it has noticed the frame.
Lag == Elapsed - (RxIndex * TICKS + rx_ticks + 1)

FrameInv == word # NoWord =>
    /\ index \in 0 .. StopIndex
    /\ left \in 1 .. TICKS + 1
    /\ left - drift <= TICKS + MaxDrift     \* the bit began at most MaxDrift late
    /\ index = 0 => drift = 0 /\ left <= TICKS

\* The start bit is on the line and the receiver has not noticed it: nothing of
\* it has been sampled yet, or only a wrong tick.
Unnoticed == /\ rx_fsm = "IDLE" /\ rx_ticks = TICKS - 1 /\ index = 0
             /\ (left = TICKS /\ ~hit) \/ (left = TICKS - 1 /\ hit /\ Noise)

PhaseInv == IF word = NoWord
            THEN rx_fsm = "IDLE" \/ (Judged /\ left + rx_ticks > TICKS)
            ELSE Unnoticed \/ (rx_fsm # "IDLE" /\ Lag \in 0 .. Late) \/ Done

PendingInv == pending = IF word = NoWord \/ Judged \/ Done THEN << >> ELSE <<word>>

\* Of a bit's samples one at most is wrong, and then the bit has had its wrong
\* tick.
SamplesInv(c) ==
    /\ rx_ticks \in TICK_SAMPLE_A + 1 .. TICK_SAMPLE_C /\ s0 # RxBit(c) => hit
    /\ rx_ticks \in TICK_SAMPLE_B + 1 .. TICK_SAMPLE_C /\ s1 # RxBit(c) => hit
    /\ rx_ticks \in TICK_SAMPLE_B + 1 .. TICK_SAMPLE_C => s0 = RxBit(c) \/ s1 = RxBit(c)

GotInv == rx_fsm # "IDLE" /\ ~Judged =>
    /\ RxGot(word) /\ SamplesInv(word)
    /\ rx_fsm = "PARITY" => lcr.pen

PeerInv == /\ PeerTypeOK /\ lcr \in LineCtrls
           /\ (rx_fsm # "IDLE" /\ ~Judged => word # NoWord)
           /\ FrameInv /\ PhaseInv /\ PendingInv /\ GotInv
           /\ faulty = FALSE

-----------------------------------------------------------------------------
(* Ticks and levels *)

LEMMA Tolerance ==
    /\ MaxDrift \in Nat /\ Late \in 0 .. 1 /\ (Late = 0 <=> ~Noise)
    /\ MaxDrift + TICK_SAMPLE_C + 1 + Late < TICKS
    /\ MaxDrift <= TICK_SAMPLE_A
    /\ \A g \in Gaps : g \in Nat /\ g >= MaxDrift + 2 + Late
<1>1. MaxDrift \in Nat /\ Late \in 0 .. 1 /\ (Late = 0 <=> ~Noise)
  BY PeerAssumption DEF Late
<1>2. MaxDrift + TICK_SAMPLE_C + 1 + Late < TICKS
  BY ToleranceAssumption
<1>3. MaxDrift <= TICK_SAMPLE_A
  BY <1>1, <1>2, FrameAssumption DEF TICK_SAMPLE_A, TICK_SAMPLE_C, TICK_DELTA
<1>. QED BY <1>1, <1>2, <1>3, PeerAssumption, ToleranceAssumption

\* Between the first sample and the last, the receiver and the peer are at the
\* same bit; before the last sample the peer is not ahead, after the first it
\* is not behind.
LEMMA SameBit ==
    ASSUME NEW i \in Nat, NEW r \in Nat, NEW t \in Nat,
           NEW d \in -MaxDrift .. MaxDrift, NEW l \in Nat, l >= 1,
           l - d <= TICKS + MaxDrift,
           ((i + 1) * TICKS + d - l) - (r * TICKS + t + 1) \in 0 .. Late
    PROVE  /\ t <= TICK_SAMPLE_C => i <= r
           /\ t >= TICK_SAMPLE_A => i >= r
<1>1. /\ MaxDrift \in Nat /\ Late \in 0 .. 1 /\ TICK_SAMPLE_A \in Nat /\ TICK_SAMPLE_C \in Nat
      /\ MaxDrift + TICK_SAMPLE_C + 1 + Late < TICKS /\ MaxDrift <= TICK_SAMPLE_A
  BY Tolerance, TickFacts
<1>2. CASE TICKS = 8
  BY <1>1, <1>2
<1>3. CASE TICKS = 16
  BY <1>1, <1>3
<1>4. CASE TICKS = 32
  BY <1>1, <1>4
<1>. QED BY <1>2, <1>3, <1>4, FrameAssumption

LEMMA PeerTyped ==
    ASSUME PeerInv
    PROVE  /\ lcr \in LineCtrl /\ lcr.wls \in 0 .. 3 /\ lcr.pen \in BOOLEAN
           /\ WordLen(lcr) = lcr.wls + 5
           /\ StopIndex = WordLen(lcr) + (IF lcr.pen THEN 2 ELSE 1)
           /\ StopIndex \in 6 .. 10
           /\ RxTypeOK /\ RxIndex \in 0 .. 10
           /\ word # NoWord => word \in [0 .. 7 -> Bit]
           /\ drift \in -MaxDrift .. MaxDrift /\ drift \in Int /\ left \in Nat
           /\ index \in Nat /\ RxIndex \in Nat
           /\ rx_ticks \in Nat /\ rx_ticks <= TICKS - 1
<1>1. lcr \in LineCtrl
  BY FrameAssumption DEF PeerInv
<1>2. /\ lcr.wls \in 0 .. 3 /\ lcr.pen \in BOOLEAN /\ WordLen(lcr) = lcr.wls + 5
      /\ StopIndex = WordLen(lcr) + (IF lcr.pen THEN 2 ELSE 1)
  BY <1>1, LcrFacts DEF StopIndex
<1>3. StopIndex \in 6 .. 10
  BY <1>2
<1>4. RxTypeOK /\ RxIndex \in 0 .. 10
  BY <1>2, <1>3 DEF PeerInv, PeerTypeOK, RxTypeOK, RxIndex
<1>5. drift \in -MaxDrift .. MaxDrift /\ left \in Nat /\ index \in 0 .. 10
  BY DEF PeerInv, PeerTypeOK
<1>6. drift \in Int /\ index \in Nat /\ RxIndex \in Nat
  BY <1>4, <1>5, Tolerance
<1>7. rx_ticks \in Nat /\ rx_ticks <= TICKS - 1
  BY <1>4, TickFacts DEF RxTypeOK
<1>8. word # NoWord => word \in [0 .. 7 -> Bit]
  BY FrameAssumption DEF PeerInv, PeerTypeOK
<1>. QED BY <1>1, <1>2, <1>3, <1>4, <1>5, <1>6, <1>7, <1>8

LEMMA LevelIsBit ==
    ASSUME PeerInv
    PROVE  /\ Level \in Bit
           /\ word = NoWord => Level = 1
           /\ word # NoWord /\ index = 0 => Level = 0
           /\ word # NoWord /\ index = StopIndex => Level = 1
<1>1. CASE word = NoWord
  BY <1>1 DEF Level, Bit
<1>2. CASE word # NoWord
  <2>1. /\ lcr \in LineCtrl /\ WordLen(lcr) \in 5 .. 8
        /\ StopIndex = WordLen(lcr) + (IF lcr.pen THEN 2 ELSE 1)
        /\ word \in [0 .. 7 -> Bit] /\ index \in 0 .. StopIndex
    <3>1. lcr.wls \in 0 .. 3 /\ WordLen(lcr) = lcr.wls + 5
      BY PeerTyped
    <3>2. WordLen(lcr) \in 5 .. 8
      BY <3>1
    <3>. QED BY <1>2, <3>2, PeerTyped DEF PeerInv, FrameInv
  <2>2. Level = FrameLevel(word, lcr, index)
    BY <1>2 DEF Level
  <2>3. CASE index = 0
    <3>1. index \notin 1 .. WordLen(lcr) /\ index # WordLen(lcr) + 1 /\ index # StopIndex
      BY <2>1, <2>3
    <3>. QED BY <1>2, <2>2, <2>3, <3>1 DEF FrameLevel, Bit
  <2>4. CASE index \in 1 .. WordLen(lcr)
    <3>1. index # 0 /\ index # WordLen(lcr) + 1 /\ index # StopIndex /\ index - 1 \in 0 .. 7
      BY <2>1, <2>4
    <3>. QED BY <1>2, <2>1, <2>2, <2>4, <3>1 DEF FrameLevel
  <2>5. CASE index = WordLen(lcr) + 1 /\ lcr.pen
    <3>1. index # 0 /\ index \notin 1 .. WordLen(lcr) /\ index # StopIndex
      BY <2>1, <2>5
    <3>. QED BY <1>2, <2>1, <2>2, <2>5, <3>1, ParityIs DEF FrameLevel
  <2>6. CASE /\ index # 0 /\ index \notin 1 .. WordLen(lcr)
             /\ ~(index = WordLen(lcr) + 1 /\ lcr.pen)
    BY <1>2, <2>2, <2>6 DEF FrameLevel, Bit
  <2>7. index = StopIndex => /\ index # 0 /\ index \notin 1 .. WordLen(lcr)
                             /\ ~(index = WordLen(lcr) + 1 /\ lcr.pen)
    BY <2>1
  <2>8. index = StopIndex => Level = 1
    BY <2>2, <2>7 DEF FrameLevel
  <2>. QED BY <1>2, <2>3, <2>4, <2>5, <2>6, <2>8
<1>. QED BY <1>1, <1>2

\* At the same bit, the peer sends what the receiver is to vote.
LEMMA LevelIsRxBit ==
    ASSUME PeerInv, word # NoWord, rx_fsm # "IDLE", ~Judged, index = RxIndex
    PROVE  Level = RxBit(word)
<1>1. /\ lcr \in LineCtrl /\ lcr.wls \in 0 .. 3 /\ WordLen(lcr) = lcr.wls + 5
      /\ rx_fsm \in RxStates /\ rx_bits \in 0 .. 7
      /\ Level = FrameLevel(word, lcr, index)
  BY PeerTyped DEF Level, RxTypeOK
<1>2. CASE rx_fsm = "START"
  BY <1>2, LevelIsBit DEF RxIndex, RxBit
<1>3. CASE rx_fsm = "DATA"
  <2>1. rx_bits <= lcr.wls + 4 /\ index = 1 + rx_bits
    BY <1>3 DEF PeerInv, GotInv, RxGot, RxIndex
  <2>2. /\ index # 0 /\ index \in 1 .. WordLen(lcr) /\ index # WordLen(lcr) + 1
        /\ index - 1 = rx_bits
    BY <1>1, <2>1
  <2>. QED BY <1>1, <1>3, <2>2 DEF FrameLevel, RxBit
<1>4. CASE rx_fsm = "PARITY"
  <2>1. lcr.pen /\ index = WordLen(lcr) + 1
    BY <1>4 DEF PeerInv, GotInv, RxIndex
  <2>2. index # 0 /\ index \notin 1 .. WordLen(lcr)
    BY <1>1, <2>1
  <2>. QED BY <1>1, <1>4, <2>1, <2>2, ParityIs DEF FrameLevel, RxBit
<1>5. CASE rx_fsm = "STOP"
  BY <1>5, LevelIsBit DEF RxIndex, RxBit
<1>. QED BY <1>1, <1>2, <1>3, <1>4, <1>5 DEF RxStates

-----------------------------------------------------------------------------
(* The peer *)

\* What a tick is for the receiver, and what of the peer it does not depend on.
Listen(wrong) ==
    /\ wrong \in BOOLEAN /\ (wrong => MayHit)
    /\ lcr' = lcr
    /\ RxTick(IF wrong THEN BitNot(Level) ELSE Level)
    /\ hit' = (left > 1 /\ (hit \/ wrong))

LEMMA ListenTyped ==
    ASSUME PeerInv, NEW wrong, Listen(wrong)
    PROVE  /\ RxTypeOK' /\ hit' \in BOOLEAN /\ lcr' \in LineCtrls
           /\ (IF wrong THEN BitNot(Level) ELSE Level) \in Bit
<1>1. (IF wrong THEN BitNot(Level) ELSE Level) \in Bit
  BY LevelIsBit DEF BitNot, Bit
<1>2. RxTypeOK'
  BY <1>1, PeerTyped, RxTyped DEF Listen
<1>3. hit' \in BOOLEAN
  BY DEF Listen
<1>. QED BY <1>1, <1>2, <1>3 DEF Listen, PeerInv

\* Within a frame, the peer moves on by one tick.
LEMMA FrameMoves ==
    ASSUME PeerInv, word # NoWord, Stay \/ NextBit, lcr' = lcr
    PROVE  /\ word' = word /\ FrameInv' /\ Elapsed' = Elapsed + 1
           /\ left > 1 => index' = index
           /\ left <= 1 => index' = index + 1
           /\ index' = index \/ (index' = index + 1 /\ left = 1 /\ index < StopIndex)
           /\ drift' \in -MaxDrift .. MaxDrift /\ left' \in Nat
<1>1. /\ index \in 0 .. StopIndex /\ left \in 1 .. TICKS + 1
      /\ left - drift <= TICKS + MaxDrift
      /\ index = 0 => drift = 0 /\ left <= TICKS
      /\ drift \in -MaxDrift .. MaxDrift /\ MaxDrift \in Nat
      /\ StopIndex \in 6 .. 10 /\ StopIndex' = StopIndex /\ TICKS \in {8, 16, 32}
  BY FrameAssumption, PeerAssumption, PeerTyped DEF PeerInv, FrameInv, StopIndex, WordLen
<1>2. CASE Stay
  <2>1. left > 1 /\ left' = left - 1 /\ word' = word /\ index' = index /\ drift' = drift
    BY <1>2 DEF Stay
  <2>2. Elapsed' = Elapsed + 1
    BY <1>1, <2>1 DEF Elapsed
  <2>. QED BY <1>1, <2>1, <2>2 DEF FrameInv
<1>3. CASE NextBit
  <2>1. PICK j \in {-1, 0, 1} : drift' = drift + j /\ left' = TICKS + j
                                /\ drift + j \in -MaxDrift .. MaxDrift
    BY <1>3 DEF NextBit
  <2>2. left = 1 /\ index < StopIndex /\ word' = word /\ index' = index + 1
    BY <1>1, <1>3 DEF NextBit
  <2>3. Elapsed' = Elapsed + 1
    <3>1. CASE TICKS = 8
      BY <1>1, <2>1, <2>2, <3>1 DEF Elapsed
    <3>2. CASE TICKS = 16
      BY <1>1, <2>1, <2>2, <3>2 DEF Elapsed
    <3>3. CASE TICKS = 32
      BY <1>1, <2>1, <2>2, <3>3 DEF Elapsed
    <3>. QED BY <1>1, <3>1, <3>2, <3>3
  <2>4. FrameInv'
    BY <1>1, <2>1, <2>2 DEF FrameInv
  <2>. QED BY <1>1, <2>1, <2>2, <2>3, <2>4
<1>. QED BY <1>2, <1>3

\* While the receiver samples a bit, the bit is on the line.
LEMMA SamplesInStep ==
    ASSUME PeerInv, word # NoWord, rx_fsm # "IDLE"
    PROVE  /\ rx_ticks <= TICK_SAMPLE_C => index <= RxIndex /\ ~Judged
           /\ rx_ticks >= TICK_SAMPLE_A => index >= RxIndex
<1>1. ((index + 1) * TICKS + drift - left) - (RxIndex * TICKS + rx_ticks + 1) \in 0 .. Late
  BY DEF PeerInv, PhaseInv, Unnoticed, Done, Lag, Elapsed
<1>2. /\ left \in 1 .. TICKS + 1 /\ left - drift <= TICKS + MaxDrift
  BY DEF PeerInv, FrameInv
<1>3. left \in Nat /\ left >= 1
  BY <1>2, PeerTyped, TickFacts
<1>4. rx_ticks <= TICK_SAMPLE_C => ~Judged
  BY PeerTyped, TickFacts DEF Judged
<1>. QED BY <1>1, <1>2, <1>3, <1>4, PeerTyped, SameBit

-----------------------------------------------------------------------------
(* The receiver while a frame is on the line *)

\* The three samples of a bit outvote its one wrong tick.
LEMMA VoteRight ==
    ASSUME PeerInv, word # NoWord, rx_fsm # "IDLE", rx_ticks = TICK_SAMPLE_C,
           NEW wrong, Listen(wrong)
    PROVE  voted_din' = RxBit(word)
<1>. DEFINE din == IF wrong THEN BitNot(Level) ELSE Level
<1>1. index = RxIndex /\ ~Judged
  BY SamplesInStep, TickFacts, PeerTyped
<1>2. Level = RxBit(word) /\ Level \in Bit
  BY <1>1, LevelIsRxBit, LevelIsBit
<1>3. /\ s0 # RxBit(word) => hit
      /\ s1 # RxBit(word) => hit
      /\ s0 = RxBit(word) \/ s1 = RxBit(word)
  <2>1. rx_ticks \in TICK_SAMPLE_A + 1 .. TICK_SAMPLE_C
        /\ rx_ticks \in TICK_SAMPLE_B + 1 .. TICK_SAMPLE_C
    BY TickFacts
  <2>. QED BY <1>1, <2>1 DEF PeerInv, GotInv, SamplesInv
<1>4. /\ din # Level => ~hit
      /\ din \in Bit /\ s0 \in Bit /\ s1 \in Bit
  BY ListenTyped, PeerTyped DEF Listen, MayHit, RxTypeOK
<1>5. s0' = s0 /\ s1' = s1 /\ s2' = din
  BY TickFacts DEF Listen, RxTick, Sample
<1>. HIDE DEF din
<1>6. CASE din = Level
  BY <1>2, <1>3, <1>4, <1>5, <1>6 DEF voted_din, Bit
<1>7. CASE din # Level
  BY <1>2, <1>3, <1>4, <1>5, <1>7 DEF voted_din, Bit
<1>. QED BY <1>6, <1>7

\* A tick of the receiver within a bit.
LEMMA PeerWithin ==
    ASSUME PeerInv, word # NoWord, rx_fsm # "IDLE", rx_ticks < TICKS - 1,
           NEW wrong, Listen(wrong), Deliver(<< >>)
    PROVE  /\ rx_fsm' = rx_fsm /\ rx_bits' = rx_bits /\ rx_ticks' = rx_ticks + 1
           /\ RxIndex' = RxIndex
           /\ faulty' = FALSE
           /\ pending' = IF rx_fsm = "STOP" /\ rx_ticks = TICK_SAMPLE_C
                         THEN << >> ELSE pending
           /\ ~Judged => \A c : c = word => RxGot(c)'
<1>1. /\ RxTypeOK /\ lcr \in LineCtrl /\ lcr' = lcr /\ rx_ticks \in Nat
      /\ word \in [0 .. 7 -> Bit]
  BY PeerTyped DEF Listen
<1>2. PICK din \in Bit : RxTick(din)
  BY ListenTyped DEF Listen
<1>3. /\ rx_fsm' = rx_fsm /\ rx_bits' = rx_bits /\ rx_ticks' = rx_ticks + 1
      /\ \A c \in [0 .. 7 -> Bit] :
            RxGot(c) /\ (rx_ticks = TICK_SAMPLE_C => voted_din' = RxBit(c))
            => RxGot(c)'
  BY <1>1, <1>2, RxWithin
<1>4. RxIndex' = RxIndex
  BY <1>1, <1>3 DEF RxIndex, StopIndex
<1>5. ASSUME ~Judged, NEW c, c = word
      PROVE  RxGot(c)'
  <2>1. RxGot(c)
    BY <1>5 DEF PeerInv, GotInv
  <2>2. rx_ticks = TICK_SAMPLE_C => voted_din' = RxBit(c)
    BY <1>5, VoteRight
  <2>. QED BY <1>1, <1>3, <1>5, <2>1, <2>2
<1>6. (rx_done' /\ ~rx_done) <=> (rx_fsm = "STOP" /\ rx_ticks = TICK_SAMPLE_C)
  BY <1>1, <1>3, TickFacts DEF rx_done
<1>7. pending \in Seq(Chars) /\ faulty = FALSE
  BY DEF PeerInv, PeerTypeOK
<1>8. CASE rx_fsm = "STOP" /\ rx_ticks = TICK_SAMPLE_C
  <2>1. ~Judged /\ ~Done
    BY <1>8, SamplesInStep, TickFacts DEF Done
  <2>2. pending = <<word>>
    BY <2>1 DEF PeerInv, PendingInv
  <2>3. PICK c \in [0 .. 7 -> Bit] : c = word
    BY <1>1
  <2>4. RxGot(c)' /\ rx_done' /\ lcr' \in LineCtrl
    BY <1>1, <1>5, <1>6, <1>8, <2>1, <2>3
  <2>5. rx_out' = [data |-> Masked(c, lcr'), perr |-> FALSE, ferr |-> FALSE]
    BY <2>4, RxDelivers
  <2>6. Head(pending) = c /\ pending # << >> /\ Tail(pending) \o << >> = << >>
    BY <2>2, <2>3
  <2>7. faulty' = FALSE /\ pending' = << >>
    BY <1>1, <1>6, <1>8, <2>5, <2>6 DEF Deliver
  <2>. QED BY <1>3, <1>4, <1>5, <1>8, <2>7
<1>9. CASE ~(rx_fsm = "STOP" /\ rx_ticks = TICK_SAMPLE_C)
  <2>1. faulty' = FALSE /\ pending' = pending
    BY <1>6, <1>7, <1>9 DEF Deliver
  <2>. QED BY <1>3, <1>4, <1>5, <1>9, <2>1
<1>. QED BY <1>8, <1>9

\* A bit's samples, after a tick that takes none or one of them.
LEMMA SamplesKept ==
    ASSUME PeerInv, word # NoWord, rx_fsm # "IDLE", ~Judged, rx_ticks < TICKS - 1,
           NEW wrong, Listen(wrong), rx_fsm' = rx_fsm, rx_bits' = rx_bits,
           rx_ticks' = rx_ticks + 1,
           left > 1 => index' = index,
           rx_ticks' \in TICK_SAMPLE_A + 1 .. TICK_SAMPLE_C => index' = index /\ left > 1,
           NEW c, c = word
    PROVE  SamplesInv(c)'
<1>. DEFINE din == IF wrong THEN BitNot(Level) ELSE Level
<1>. SUFFICES ASSUME rx_ticks' \in TICK_SAMPLE_A + 1 .. TICK_SAMPLE_C
              PROVE  SamplesInv(c)'
  BY TickFacts DEF SamplesInv
<1>1. /\ rx_ticks \in Nat /\ rx_ticks >= TICK_SAMPLE_A /\ rx_ticks < TICK_SAMPLE_C
      /\ lcr' = lcr
  BY PeerTyped, TickFacts DEF Listen
<1>2. index = RxIndex
  BY <1>1, SamplesInStep, PeerTyped, TickFacts
<1>3. Level = RxBit(c)
  BY <1>2, LevelIsRxBit
<1>4. RxBit(c)' = RxBit(c)
  BY <1>1 DEF RxBit
<1>5. /\ s0' = IF rx_ticks = TICK_SAMPLE_A THEN din ELSE s0
      /\ s1' = IF rx_ticks = TICK_SAMPLE_B THEN din ELSE s1
  BY DEF Listen, RxTick, Sample
<1>6. hit' = (hit \/ wrong) /\ (din # Level => wrong /\ ~hit)
  BY DEF Listen, MayHit
<1>7. SamplesInv(c)
  BY DEF PeerInv, GotInv
<1>. HIDE DEF din
<1>8. CASE rx_ticks = TICK_SAMPLE_A
  <2>1. rx_ticks' \notin TICK_SAMPLE_B + 1 .. TICK_SAMPLE_C /\ s0' = din
    BY <1>5, <1>8, TickFacts
  <2>. QED BY <1>3, <1>4, <1>6, <2>1 DEF SamplesInv
<1>9. CASE rx_ticks > TICK_SAMPLE_A /\ rx_ticks < TICK_SAMPLE_B
  <2>1. /\ rx_ticks' \notin TICK_SAMPLE_B + 1 .. TICK_SAMPLE_C /\ s0' = s0
        /\ rx_ticks \in TICK_SAMPLE_A + 1 .. TICK_SAMPLE_C
    BY <1>1, <1>5, <1>9, TickFacts
  <2>. QED BY <1>4, <1>6, <1>7, <2>1 DEF SamplesInv
<1>10. CASE rx_ticks = TICK_SAMPLE_B
  <2>1. /\ s0' = s0 /\ s1' = din
        /\ rx_ticks \in TICK_SAMPLE_A + 1 .. TICK_SAMPLE_C
    BY <1>1, <1>5, <1>10, TickFacts
  <2>2. s0 # RxBit(c) => hit
    BY <1>7, <2>1 DEF SamplesInv
  <2>. QED BY <1>3, <1>4, <1>6, <2>1, <2>2 DEF SamplesInv
<1>11. CASE rx_ticks > TICK_SAMPLE_B
  <2>1. /\ s0' = s0 /\ s1' = s1
        /\ rx_ticks \in TICK_SAMPLE_A + 1 .. TICK_SAMPLE_C
        /\ rx_ticks \in TICK_SAMPLE_B + 1 .. TICK_SAMPLE_C
    BY <1>1, <1>5, <1>11, TickFacts
  <2>. QED BY <1>4, <1>6, <1>7, <2>1 DEF SamplesInv
<1>. QED BY <1>1, <1>8, <1>9, <1>10, <1>11, TickFacts

\* What a tick within a frame leaves typed.
LEMMA FrameTyped ==
    ASSUME PeerInv, word # NoWord, NEW wrong, Listen(wrong), Stay \/ NextBit,
           faulty' = FALSE, pending' \in {<< >>, pending}
    PROVE  PeerTypeOK' /\ lcr' \in LineCtrls
<1>1. RxTypeOK' /\ hit' \in BOOLEAN /\ lcr' \in LineCtrls /\ lcr' = lcr
  BY ListenTyped DEF Listen
<1>2. /\ word' = word /\ FrameInv' /\ drift' \in -MaxDrift .. MaxDrift /\ left' \in Nat
      /\ StopIndex' = StopIndex
  BY <1>1, FrameMoves DEF StopIndex
<1>3. index' \in 0 .. 10
  <2>1. index' \in 0 .. StopIndex /\ StopIndex \in 6 .. 10
    BY <1>2, PeerTyped DEF FrameInv
  <2>. QED BY <2>1
<1>4. pending' \in Seq(Chars)
  <2>1. pending \in Seq(Chars) /\ << >> \in Seq(Chars)
    BY DEF PeerInv, PeerTypeOK
  <2>. QED BY <2>1
<1>. QED BY <1>1, <1>2, <1>3, <1>4 DEF PeerInv, PeerTypeOK

\* The lag stays as it is while receiver and peer go on by a tick.
LEMMA LagKept ==
    ASSUME PeerInv, word # NoWord, rx_fsm # "IDLE", Stay \/ NextBit, lcr' = lcr,
           \/ RxIndex' = RxIndex /\ rx_ticks' = rx_ticks + 1
           \/ RxIndex' = RxIndex + 1 /\ rx_ticks = TICKS - 1 /\ rx_ticks' = 0
    PROVE  /\ Lag' \in 0 .. Late
           /\ rx_ticks' <= TICK_SAMPLE_C => index' <= RxIndex'
<1>1. /\ Elapsed' = Elapsed + 1 /\ FrameInv' /\ word' = word /\ index' \in Nat
      /\ drift' \in -MaxDrift .. MaxDrift /\ left' \in Nat
  BY FrameMoves, PeerTyped
<1>2. /\ RxIndex \in Nat /\ rx_ticks \in Nat /\ Lag \in 0 .. Late
      /\ index \in Int /\ drift \in Int /\ left \in Int /\ TICKS \in {8, 16, 32}
  <2>1. Lag \in 0 .. Late
    BY DEF PeerInv, PhaseInv, Unnoticed, Done
  <2>. QED BY <2>1, PeerTyped, FrameAssumption
<1>3. Lag' = Lag
  <2>1. Elapsed \in Int
    BY <1>2 DEF Elapsed
  <2>2. RxIndex' * TICKS + rx_ticks' = RxIndex * TICKS + rx_ticks + 1
    <3>1. CASE RxIndex' = RxIndex /\ rx_ticks' = rx_ticks + 1
      <4>1. RxIndex * TICKS \in Int
        BY <1>2
      <4>. QED BY <1>2, <3>1, <4>1
    <3>2. CASE RxIndex' = RxIndex + 1 /\ rx_ticks = TICKS - 1 /\ rx_ticks' = 0
      BY <1>2, <3>2
    <3>. QED BY <3>1, <3>2
  <2>3. Lag' = Elapsed' - (RxIndex' * TICKS + rx_ticks' + 1)
        /\ Lag = Elapsed - (RxIndex * TICKS + rx_ticks + 1)
    BY DEF Lag
  <2>4. PICK e \in Int : e = RxIndex * TICKS + rx_ticks
    BY <1>2
  <2>5. RxIndex' * TICKS + rx_ticks' = e + 1
    BY <2>2, <2>4
  <2>6. Lag' = (Elapsed + 1) - (e + 1 + 1) /\ Lag = Elapsed - (e + 1)
    BY <1>1, <2>3, <2>4, <2>5
  <2>. QED BY <2>1, <2>4, <2>6
<1>4. Lag' \in 0 .. Late
  BY <1>2, <1>3
<1>5. rx_ticks' \in Nat /\ RxIndex' \in Nat
  BY <1>2
<1>6. /\ left' >= 1 /\ left' - drift' <= TICKS + MaxDrift
  BY <1>1, TickFacts DEF FrameInv
<1>7. ((index' + 1) * TICKS + drift' - left') - (RxIndex' * TICKS + rx_ticks' + 1) \in 0 .. Late
  BY <1>4 DEF Lag, Elapsed
<1>. QED BY <1>1, <1>4, <1>5, <1>6, <1>7, SameBit

\* A tick of both sides, within a bit of the receiver.
LEMMA FrameWithin ==
    ASSUME PeerInv, word # NoWord, rx_fsm # "IDLE", rx_ticks < TICKS - 1,
           NEW wrong, Listen(wrong), Deliver(<< >>), Stay \/ NextBit
    PROVE  PeerInv'
<1>1. /\ rx_fsm' = rx_fsm /\ rx_bits' = rx_bits /\ rx_ticks' = rx_ticks + 1
      /\ RxIndex' = RxIndex /\ faulty' = FALSE /\ lcr' = lcr
      /\ pending' = IF rx_fsm = "STOP" /\ rx_ticks = TICK_SAMPLE_C
                    THEN << >> ELSE pending
      /\ ~Judged => \A c : c = word => RxGot(c)'
  BY PeerWithin DEF Listen
<1>2. /\ word' = word /\ FrameInv'
      /\ left > 1 => index' = index
      /\ left <= 1 => index' = index + 1
  BY <1>1, FrameMoves
<1>3. /\ Lag' \in 0 .. Late
      /\ rx_ticks' <= TICK_SAMPLE_C => index' <= RxIndex'
  BY <1>1, LagKept
<1>4. PeerTypeOK' /\ lcr' \in LineCtrls
  BY <1>1, FrameTyped
<1>5. Judged' <=> Judged \/ (rx_fsm = "STOP" /\ rx_ticks = TICK_SAMPLE_C)
  BY <1>1, PeerTyped, TickFacts DEF Judged
<1>6. PhaseInv' /\ PendingInv'
  <2>1. PhaseInv'
    BY <1>1, <1>2, <1>3 DEF PhaseInv
  <2>2. PendingInv'
    BY <1>1, <1>2, <1>5 DEF PeerInv, PendingInv, Done
  <2>. QED BY <2>1, <2>2
<1>7. GotInv'
  <2>. SUFFICES ASSUME ~Judged' PROVE GotInv'
    BY DEF GotInv
  <2>1. ~Judged
    BY <1>5
  <2>2. rx_ticks' \in TICK_SAMPLE_A + 1 .. TICK_SAMPLE_C => index' = index /\ left > 1
    <3>. SUFFICES ASSUME rx_ticks' \in TICK_SAMPLE_A + 1 .. TICK_SAMPLE_C
                  PROVE  index' = index /\ left > 1
      OBVIOUS
    <3>1. rx_ticks >= TICK_SAMPLE_A /\ rx_ticks <= TICK_SAMPLE_C /\ rx_ticks' <= TICK_SAMPLE_C
      BY <1>1, PeerTyped, TickFacts
    <3>2. index = RxIndex /\ index' <= RxIndex
      BY <1>1, <1>3, <3>1, SamplesInStep, PeerTyped
    <3>. QED BY <1>2, <3>2, PeerTyped
  <2>3. PICK c : c = word
    OBVIOUS
  <2>4. SamplesInv(c)' /\ RxGot(c)'
    BY <1>1, <1>2, <2>1, <2>2, <2>3, SamplesKept
  <2>5. rx_fsm' = "PARITY" => lcr'.pen
    BY <1>1, <2>1 DEF PeerInv, GotInv
  <2>6. word' = c
    BY <1>2, <2>3
  <2>. QED BY <2>4, <2>5, <2>6 DEF GotInv, RxGot, RxBit, Shifted, SamplesInv
<1>. QED BY <1>1, <1>2, <1>4, <1>6, <1>7 DEF PeerInv

\* The tick between two bits of a frame.
LEMMA FrameBetween ==
    ASSUME PeerInv, word # NoWord, rx_fsm \in {"START", "DATA", "PARITY"},
           rx_ticks = TICKS - 1,
           NEW wrong, Listen(wrong), Deliver(<< >>), Stay \/ NextBit
    PROVE  PeerInv'
<1>1. /\ RxTypeOK /\ lcr \in LineCtrl /\ lcr' = lcr /\ lcr.wls \in 0 .. 3
      /\ lcr.pen \in BOOLEAN /\ WordLen(lcr) = lcr.wls + 5
      /\ StopIndex = WordLen(lcr) + (IF lcr.pen THEN 2 ELSE 1)
      /\ StopIndex' = StopIndex
      /\ word \in [0 .. 7 -> Bit] /\ rx_bits \in 0 .. 7
  BY PeerTyped DEF Listen, StopIndex, WordLen, RxTypeOK
<1>2. PICK din \in Bit : RxTick(din)
  BY ListenTyped DEF Listen
<1>3. PICK c \in [0 .. 7 -> Bit] : c = word
  BY <1>1
<1>4. /\ RxGot(c) /\ ~Judged /\ pending = <<word>>
      /\ rx_fsm = "PARITY" => lcr.pen
      /\ rx_fsm = "DATA" => rx_bits <= lcr.wls + 4
  BY <1>3 DEF PeerInv, GotInv, PendingInv, Judged, Done, RxGot
<1>5. rx_ticks' = 0 /\ RxNextBit(din) /\ RxGot(c)'
  BY <1>1, <1>2, <1>4, RxBetween
<1>6. /\ RxIndex' = RxIndex + 1
      /\ rx_fsm' \in {"DATA", "PARITY", "STOP"}
      /\ rx_fsm' = "PARITY" => lcr.pen
  <2>1. CASE rx_fsm = "START"
    BY <1>5, <2>1 DEF RxNextBit, RxIndex
  <2>2. CASE rx_fsm = "DATA" /\ rx_bits < lcr.wls + 4
    BY <1>1, <1>5, <2>2 DEF RxNextBit, RxIndex
  <2>3. CASE rx_fsm = "DATA" /\ ~(rx_bits < lcr.wls + 4) /\ lcr.pen
    <3>1. rx_fsm' = "PARITY" /\ rx_bits = lcr.wls + 4
      BY <1>1, <1>4, <1>5, <2>3 DEF RxNextBit
    <3>. QED BY <1>1, <2>3, <3>1 DEF RxIndex
  <2>4. CASE rx_fsm = "DATA" /\ ~(rx_bits < lcr.wls + 4) /\ ~lcr.pen
    <3>1. rx_fsm' = "STOP" /\ rx_bits = lcr.wls + 4
      BY <1>1, <1>4, <1>5, <2>4 DEF RxNextBit
    <3>. QED BY <1>1, <2>4, <3>1 DEF RxIndex
  <2>5. CASE rx_fsm = "PARITY"
    <3>1. rx_fsm' = "STOP" /\ lcr.pen
      BY <1>4, <1>5, <2>5 DEF RxNextBit
    <3>. QED BY <1>1, <2>5, <3>1 DEF RxIndex
  <2>. QED BY <2>1, <2>2, <2>3, <2>4, <2>5
<1>7. ~rx_done' /\ ~Judged' /\ rx_ticks' \notin TICK_SAMPLE_A + 1 .. TICK_SAMPLE_C
      /\ rx_ticks' \notin TICK_SAMPLE_B + 1 .. TICK_SAMPLE_C
  BY <1>5, TickFacts DEF rx_done, Judged
<1>8. faulty' = FALSE /\ pending' = pending
  BY <1>4, <1>7 DEF Deliver, PeerInv, PeerTypeOK
<1>9. word' = word /\ FrameInv' /\ Lag' \in 0 .. Late
  BY <1>1, <1>5, <1>6, FrameMoves, LagKept
<1>10. PeerTypeOK' /\ lcr' \in LineCtrls
  BY <1>8, FrameTyped
<1>11. PhaseInv' /\ PendingInv'
  BY <1>4, <1>6, <1>7, <1>8, <1>9 DEF PhaseInv, PendingInv, Done
<1>12. GotInv'
  <2>1. word' = c
    BY <1>3, <1>9
  <2>. QED BY <1>1, <1>5, <1>6, <1>7, <2>1 DEF GotInv, RxGot, RxBit, Shifted, SamplesInv
<1>. QED BY <1>8, <1>9, <1>10, <1>11, <1>12 DEF PeerInv

-----------------------------------------------------------------------------
(* The stop bit, the idle line and the start bit *)

\* Once the receiver is through with the stop bit the line is high.
LEMMA AfterStop ==
    ASSUME PeerInv, NEW wrong, Listen(wrong),
           \/ rx_fsm = "STOP" /\ rx_ticks = TICKS - 1
           \/ Done
           \/ word = NoWord /\ rx_fsm = "IDLE"
    PROVE  /\ rx_fsm' = "IDLE" /\ (rx_fsm = "IDLE" => rx_ticks' = TICKS - 1)
           /\ word # NoWord => index = StopIndex
           /\ ~rx_done' /\ pending = << >> /\ faulty = FALSE
<1>1. word # NoWord => index = StopIndex
  <2>. SUFFICES ASSUME word # NoWord, rx_fsm = "STOP", rx_ticks = TICKS - 1
                PROVE  index = StopIndex
    BY DEF Done
  <2>1. index >= RxIndex
    BY SamplesInStep, TickFacts
  <2>2. RxIndex = StopIndex /\ index \in 0 .. StopIndex
    BY DEF RxIndex, PeerInv, FrameInv
  <2>. QED BY <2>1, <2>2, PeerTyped
<1>2. Level = 1 /\ ~wrong
  BY <1>1, LevelIsBit, PeerTyped DEF Listen, MayHit
<1>3. RxTick(1) /\ lcr' = lcr /\ RxTypeOK
  BY <1>2, PeerTyped DEF Listen
<1>4. rx_fsm' = "IDLE" /\ (rx_fsm = "IDLE" => rx_ticks' = TICKS - 1)
  BY <1>3, RxRest DEF Done, Bit
<1>5. pending = << >>
  BY TickFacts DEF PeerInv, PendingInv, Judged
<1>. QED BY <1>1, <1>4, <1>5 DEF rx_done, PeerInv

\* The receiver is through with the stop bit, and the peer goes on with it.
LEMMA FrameAfterStop ==
    ASSUME PeerInv, word # NoWord, NEW wrong, Listen(wrong), Deliver(<< >>),
           Stay \/ NextBit,
           Done \/ (rx_fsm = "STOP" /\ rx_ticks = TICKS - 1)
    PROVE  PeerInv'
<1>1. rx_fsm' = "IDLE" /\ index = StopIndex /\ pending' = << >> /\ faulty' = FALSE
  <2>1. /\ rx_fsm' = "IDLE" /\ ~rx_done' /\ pending = << >> /\ faulty = FALSE
        /\ index = StopIndex
    BY AfterStop
  <2>2. pending \o << >> = << >>
    BY <2>1
  <2>. QED BY <2>1, <2>2 DEF Deliver
<1>2. word' = word /\ FrameInv' /\ index' = index /\ StopIndex' = StopIndex
  BY <1>1, FrameMoves, PeerTyped DEF Listen, StopIndex, WordLen
<1>3. PeerTypeOK' /\ lcr' \in LineCtrls
  BY <1>1, FrameTyped
<1>. QED BY <1>1, <1>2, <1>3 DEF PeerInv, PhaseInv, PendingInv, GotInv, Done, Judged

\* The start bit is on the line: the receiver notices it, unless this is the
\* wrong tick.
LEMMA FrameUnnoticed ==
    ASSUME PeerInv, word # NoWord, Unnoticed, NEW wrong, Listen(wrong),
           Deliver(<< >>), Stay \/ NextBit
    PROVE  PeerInv'
<1>1. /\ rx_fsm = "IDLE" /\ rx_ticks = TICKS - 1 /\ index = 0 /\ drift = 0
      /\ left \in {TICKS, TICKS - 1} /\ left > 1
      /\ RxTypeOK /\ lcr' = lcr /\ TICKS \in Nat /\ TICKS >= 8
  <2>1. /\ rx_fsm = "IDLE" /\ rx_ticks = TICKS - 1 /\ index = 0 /\ drift = 0
        /\ left \in {TICKS, TICKS - 1}
    BY DEF Unnoticed, PeerInv, FrameInv
  <2>2. left > 1
    BY <2>1, TickFacts
  <2>. QED BY <2>1, <2>2, PeerTyped, TickFacts DEF Listen
<1>2. /\ word' = word /\ FrameInv' /\ index' = 0 /\ drift' = 0 /\ left' = left - 1
      /\ hit' = (hit \/ wrong)
  <2>1. Stay /\ hit' = (hit \/ wrong)
    BY <1>1 DEF NextBit, Listen
  <2>. QED BY <1>1, <2>1, FrameMoves DEF Stay
<1>3. ~Judged /\ ~Done /\ pending = <<word>> /\ Level = 0
  <2>1. ~Judged /\ ~Done
    BY <1>1, PeerTyped DEF Judged, Done
  <2>2. Level = 0
    BY <1>1, LevelIsBit
  <2>. QED BY <2>1, <2>2 DEF PeerInv, PendingInv
<1>4. ~rx_done' => faulty' = FALSE /\ pending' = <<word>>
  BY <1>3 DEF Deliver, PeerInv
<1>5. index' # StopIndex'
  BY <1>1, <1>2, PeerTyped DEF StopIndex, WordLen
<1>6. CASE wrong
  <2>1. RxTick(1) /\ ~hit /\ Noise
    BY <1>3, <1>6 DEF Listen, MayHit, BitNot
  <2>2. rx_fsm' = "IDLE" /\ rx_ticks' = TICKS - 1
    BY <1>1, <2>1, RxRest DEF Bit
  <2>3. faulty' = FALSE /\ pending' = <<word>>
    BY <1>4, <2>2 DEF rx_done
  <2>4. PeerTypeOK' /\ lcr' \in LineCtrls
    BY <1>3, <2>3, FrameTyped
  <2>5. Unnoticed'
    BY <1>1, <1>2, <1>6, <2>1, <2>2 DEF Unnoticed
  <2>. QED BY <1>2, <1>5, <2>2, <2>3, <2>4, <2>5
           DEF PeerInv, PhaseInv, PendingInv, GotInv, Done, Judged
<1>7. CASE ~wrong
  <2>1. RxTick(0)
    BY <1>3, <1>7 DEF Listen
  <2>2. rx_ticks' = 0 /\ rx_fsm' = "START" /\ \A c : RxGot(c)'
    BY <1>1, <2>1, RxStart DEF Bit
  <2>3. faulty' = FALSE /\ pending' = <<word>>
    BY <1>4, <2>2 DEF rx_done
  <2>4. PeerTypeOK' /\ lcr' \in LineCtrls
    BY <1>3, <2>3, FrameTyped
  <2>5. Lag' \in 0 .. Late
    <3>1. RxIndex' * TICKS + rx_ticks' + 1 = 1
      BY <1>1, <2>2 DEF RxIndex
    <3>2. Elapsed' = TICKS - (left - 1)
      BY <1>1, <1>2 DEF Elapsed
    <3>3. left = TICKS - 1 => Noise
      BY <1>1 DEF Unnoticed
    <3>. QED BY <1>1, <3>1, <3>2, <3>3, Tolerance DEF Lag
  <2>6. GotInv'
    <3>1. SamplesInv(word)'
      BY <2>2, TickFacts DEF SamplesInv
    <3>2. RxGot(word)'
      <4>1. PICK c : c = word'
        OBVIOUS
      <4>2. RxGot(c)'
        BY <2>2
      <4>. QED BY <4>1, <4>2 DEF RxGot, RxBit, Shifted
    <3>. QED BY <2>2, <3>1, <3>2 DEF GotInv
  <2>7. ~Judged'
    BY <2>2 DEF Judged
  <2>. QED BY <1>2, <2>2, <2>3, <2>4, <2>5, <2>6, <2>7
           DEF PeerInv, PhaseInv, PendingInv, Done
<1>. QED BY <1>6, <1>7

\* When the frame ends the receiver is in the stop bit and has taken its
\* samples, however fast the frame was and late the receiver noticed it.
LEMMA EndInStop ==
    ASSUME PeerInv, EndFrame, rx_fsm # "IDLE"
    PROVE  rx_fsm = "STOP" /\ rx_ticks >= TICKS - MaxDrift - 2 - Late
<1>1. word # NoWord /\ index = StopIndex /\ left = 1
  BY DEF EndFrame, PeerInv, FrameInv
<1>2. /\ Lag \in 0 .. Late /\ drift >= -MaxDrift /\ drift \in Int
      /\ rx_ticks \in Nat /\ rx_ticks <= TICKS - 1 /\ RxIndex \in Nat /\ StopIndex \in 6 .. 10
      /\ TICKS \in {8, 16, 32} /\ Late \in 0 .. 1 /\ MaxDrift \in Nat
      /\ MaxDrift + Late + 1 < TICKS
  <2>1. Lag \in 0 .. Late
    BY <1>1 DEF PeerInv, PhaseInv, Unnoticed, Done
  <2>2. MaxDrift + Late + 1 < TICKS
    BY Tolerance, TickFacts
  <2>3. drift >= -MaxDrift
    BY PeerTyped, Tolerance
  <2>. QED BY <2>1, <2>2, <2>3, PeerTyped, Tolerance, FrameAssumption
<1>3. ((StopIndex + 1) * TICKS + drift - 1) - (RxIndex * TICKS + rx_ticks + 1) \in 0 .. Late
  BY <1>1, <1>2 DEF Lag, Elapsed
<1>4. RxIndex >= StopIndex
  <2>1. CASE TICKS = 8
    BY <1>2, <1>3, <2>1
  <2>2. CASE TICKS = 16
    BY <1>2, <1>3, <2>2
  <2>3. CASE TICKS = 32
    BY <1>2, <1>3, <2>3
  <2>. QED BY <1>2, <2>1, <2>2, <2>3
<1>5. rx_fsm = "STOP"
  <2>. SUFFICES ASSUME rx_fsm \in {"START", "DATA", "PARITY"} PROVE FALSE
    BY PeerTyped DEF RxTypeOK, RxStates
  <2>1. /\ rx_fsm = "DATA" => rx_bits <= lcr.wls + 4
        /\ rx_fsm = "PARITY" => lcr.pen
    BY DEF PeerInv, GotInv, RxGot, Judged
  <2>2. /\ lcr.wls \in 0 .. 3 /\ WordLen(lcr) = lcr.wls + 5
        /\ StopIndex = WordLen(lcr) + (IF lcr.pen THEN 2 ELSE 1)
        /\ rx_bits \in 0 .. 7
    BY PeerTyped DEF RxTypeOK
  <2>3. RxIndex < StopIndex
    BY <1>2, <2>1, <2>2 DEF RxIndex
  <2>. QED BY <1>2, <1>4, <2>3
<1>6. rx_ticks >= TICKS - MaxDrift - 2 - Late
  <2>1. RxIndex = StopIndex
    BY <1>5 DEF RxIndex
  <2>2. CASE TICKS = 8
    BY <1>2, <1>3, <2>1, <2>2
  <2>3. CASE TICKS = 16
    BY <1>2, <1>3, <2>1, <2>3
  <2>4. CASE TICKS = 32
    BY <1>2, <1>3, <2>1, <2>4
  <2>. QED BY <1>2, <2>2, <2>3, <2>4
<1>. QED BY <1>5, <1>6

LEMMA PauseCovers ==
    ASSUME NEW n \in Nat, NEW m \in Nat, NEW d \in Nat, NEW g \in Nat, NEW t \in Nat,
           g >= d + 2 + m, t >= n - d - 1 - m
    PROVE  g + t > n
OBVIOUS

\* The frame ends: its character has been delivered, and the pause is long
\* enough for the receiver to get through with the stop bit.
LEMMA FrameEnds ==
    ASSUME PeerInv, NEW wrong, Listen(wrong), EndFrame, Deliver(<< >>)
    PROVE  PeerInv'
<1>1. /\ word # NoWord /\ index = StopIndex /\ left <= 1
      /\ word' = NoWord /\ left' \in Gaps /\ index' = 0 /\ drift' = 0
  BY DEF EndFrame
<1>2. /\ RxTypeOK' /\ hit' \in BOOLEAN /\ lcr' \in LineCtrls
      /\ left' \in Nat /\ left' >= MaxDrift + 2 + Late
      /\ MaxDrift \in Nat /\ Late \in 0 .. 1 /\ drift' \in -MaxDrift .. MaxDrift
  BY <1>1, ListenTyped, Tolerance
<1>3. /\ pending' = << >> /\ faulty' = FALSE
      /\ rx_fsm' = "IDLE" \/ (Judged' /\ left' + rx_ticks' > TICKS)
  <2>1. CASE Done \/ (rx_fsm = "STOP" /\ rx_ticks = TICKS - 1)
    <3>1. rx_fsm' = "IDLE" /\ ~rx_done' /\ pending = << >> /\ faulty = FALSE
      BY <2>1, AfterStop
    <3>2. pending \o << >> = << >>
      BY <3>1
    <3>. QED BY <3>1, <3>2 DEF Deliver
  <2>2. CASE rx_fsm # "IDLE" /\ ~(rx_fsm = "STOP" /\ rx_ticks = TICKS - 1)
    <3>1. /\ rx_fsm = "STOP" /\ rx_ticks >= TICKS - MaxDrift - 2 - Late
          /\ rx_ticks < TICKS - 1 /\ rx_ticks \in Nat
      BY <2>2, EndInStop, PeerTyped, TickFacts
    <3>2. rx_ticks >= TICK_SAMPLE_C
      BY <1>2, <3>1, Tolerance, TickFacts
    <3>3. /\ rx_fsm' = "STOP" /\ rx_ticks' = rx_ticks + 1 /\ faulty' = FALSE
          /\ pending' = IF rx_ticks = TICK_SAMPLE_C THEN << >> ELSE pending
      BY <1>1, <3>1, PeerWithin
    <3>4. rx_ticks # TICK_SAMPLE_C => Judged
      BY <3>1, <3>2, TickFacts DEF Judged
    <3>5. pending' = << >>
      BY <3>3, <3>4 DEF PeerInv, PendingInv
    <3>6. Judged' /\ left' + rx_ticks' > TICKS
      <4>1. Judged'
        BY <3>1, <3>2, <3>3, TickFacts DEF Judged
      <4>2. rx_ticks' >= TICKS - MaxDrift - 1 - Late
        BY <1>2, <3>1, <3>3, TickFacts
      <4>3. rx_ticks' \in Nat /\ TICKS \in Nat
        BY <3>1, <3>3, TickFacts
      <4>4. left' \in Nat /\ left' >= MaxDrift + 2 + Late
        BY <1>1, Tolerance
      <4>5. MaxDrift \in Nat /\ Late \in Nat
        BY Tolerance
      <4>6. left' + rx_ticks' > TICKS
        BY <4>2, <4>3, <4>4, <4>5, PauseCovers
      <4>. QED BY <4>1, <4>6
    <3>. QED BY <3>3, <3>5, <3>6
  <2>3. rx_fsm = "IDLE" => Done
    <3>1. index # 0
      BY <1>1, PeerTyped
    <3>. QED BY <1>1, <3>1 DEF PeerInv, PhaseInv, Unnoticed
  <2>. QED BY <2>1, <2>2, <2>3
<1>4. PeerTypeOK'
  <2>1. pending' \in Seq(Chars) /\ index' \in 0 .. 10
    BY <1>1, <1>3
  <2>2. faulty' \in BOOLEAN
    BY <1>3
  <2>. QED BY <1>1, <1>2, <2>1, <2>2 DEF PeerTypeOK
<1>. QED BY <1>1, <1>2, <1>3, <1>4 DEF PeerInv, FrameInv, PhaseInv, PendingInv, GotInv, Judged

\* Between two frames the receiver gets through with the stop bit, and rests.
LEMMA IdleMoves ==
    ASSUME PeerInv, word = NoWord, NEW wrong, Listen(wrong)
    PROVE  /\ ~rx_done' \/ rx_done
           /\ pending = << >> /\ faulty = FALSE
           /\ left <= 1 => /\ rx_fsm = "IDLE" /\ rx_fsm' = "IDLE"
                           /\ rx_ticks' = TICKS - 1
           /\ \/ rx_fsm' = "IDLE"
              \/ Judged' /\ rx_ticks' = rx_ticks + 1 /\ left + rx_ticks > TICKS
<1>1. /\ rx_fsm = "IDLE" \/ (Judged /\ left + rx_ticks > TICKS)
      /\ pending = << >> /\ faulty = FALSE
  BY DEF PeerInv, PhaseInv, PendingInv
<1>2. left <= 1 => rx_fsm = "IDLE"
  BY <1>1, PeerTyped, TickFacts
<1>3. CASE rx_fsm = "IDLE" \/ rx_ticks = TICKS - 1
  <2>1. ~rx_done' /\ rx_fsm' = "IDLE" /\ (rx_fsm = "IDLE" => rx_ticks' = TICKS - 1)
    BY <1>1, <1>3, AfterStop DEF Judged
  <2>. QED BY <1>1, <1>2, <2>1
<1>4. CASE rx_fsm # "IDLE" /\ rx_ticks # TICKS - 1
  <2>1. /\ rx_ticks < TICKS - 1 /\ RxTypeOK /\ lcr \in LineCtrl /\ lcr' = lcr
        /\ rx_fsm = "STOP" /\ rx_ticks >= TICK_SAMPLE_D /\ rx_ticks \in Nat
    BY <1>1, <1>4, PeerTyped, TickFacts DEF Judged, Listen
  <2>2. PICK din \in Bit : RxTick(din)
    BY ListenTyped DEF Listen
  <2>3. rx_fsm' = "STOP" /\ rx_ticks' = rx_ticks + 1
    BY <1>4, <2>1, <2>2, RxWithin
  <2>4. Judged' /\ ~rx_done'
    BY <2>1, <2>3, TickFacts DEF Judged, rx_done
  <2>. QED BY <1>1, <1>2, <1>4, <2>3, <2>4
<1>. QED BY <1>3, <1>4

LEMMA IdleStays ==
    ASSUME PeerInv, word = NoWord, NEW wrong, Listen(wrong), Stay \/ StayIdle,
           Deliver(<< >>)
    PROVE  PeerInv'
<1>1. /\ word' = NoWord /\ index' = index /\ drift' = drift
      /\ IF left > 1 THEN left' = left - 1 ELSE left' = left
      /\ left' \in Nat
  BY PeerTyped DEF Stay, StayIdle
<1>2. RxTypeOK' /\ hit' \in BOOLEAN /\ lcr' \in LineCtrls
  BY ListenTyped
<1>3. pending' = << >> /\ faulty' = FALSE
  <2>1. (~rx_done' \/ rx_done) /\ pending = << >> /\ faulty = FALSE
    BY IdleMoves
  <2>2. pending \o << >> = << >>
    BY <2>1
  <2>. QED BY <2>1, <2>2 DEF Deliver
<1>4. rx_fsm' = "IDLE" \/ (Judged' /\ left' + rx_ticks' > TICKS)
  <2>1. /\ left <= 1 => rx_fsm' = "IDLE"
        /\ \/ rx_fsm' = "IDLE"
           \/ Judged' /\ rx_ticks' = rx_ticks + 1 /\ left + rx_ticks > TICKS
    BY IdleMoves
  <2>2. rx_ticks \in Nat /\ left \in Nat /\ TICKS \in Nat
    BY PeerTyped, TickFacts
  <2>3. CASE left <= 1
    BY <2>1, <2>3
  <2>4. CASE left > 1
    <3>1. left' = left - 1
      BY <1>1, <2>4
    <3>. QED BY <2>1, <2>2, <3>1
  <2>. QED BY <2>2, <2>3, <2>4
<1>5. PeerTypeOK'
  <2>1. pending' \in Seq(Chars)
    BY <1>3
  <2>2. faulty' \in BOOLEAN
    BY <1>3
  <2>3. index' \in 0 .. 10 /\ drift' \in -MaxDrift .. MaxDrift
    BY <1>1 DEF PeerInv, PeerTypeOK
  <2>. QED BY <1>1, <1>2, <2>1, <2>2, <2>3 DEF PeerTypeOK
<1>. QED BY <1>1, <1>2, <1>3, <1>4, <1>5
         DEF PeerInv, FrameInv, PhaseInv, PendingInv, GotInv, Judged

\* The peer begins a frame: the receiver is at rest.
LEMMA FrameStarts ==
    ASSUME PeerInv, NEW wrong, Listen(wrong), NEW c \in Chars, StartFrame(c),
           Deliver(<<c>>)
    PROVE  PeerInv'
<1>1. /\ word = NoWord /\ left <= 1
      /\ word' = c /\ index' = 0 /\ left' = TICKS /\ drift' = 0
      /\ c # NoWord /\ hit' = FALSE
  <2>1. /\ word = NoWord /\ left <= 1
        /\ word' = c /\ index' = 0 /\ left' = TICKS /\ drift' = 0
    BY DEF StartFrame
  <2>2. ~(left > 1)
    BY <2>1, PeerTyped
  <2>3. hit' = FALSE
    BY <2>2 DEF Listen
  <2>4. c # NoWord
    BY PeerAssumption
  <2>. QED BY <2>1, <2>3, <2>4
<1>2. RxTypeOK' /\ lcr' \in LineCtrls /\ lcr' = lcr /\ StopIndex' = StopIndex
      /\ StopIndex \in 6 .. 10
  BY ListenTyped, PeerTyped DEF Listen, StopIndex
<1>3. rx_fsm' = "IDLE" /\ rx_ticks' = TICKS - 1
  BY <1>1, IdleMoves
<1>4. pending' = <<c>> /\ faulty' = FALSE
  <2>1. (~rx_done' \/ rx_done) /\ pending = << >> /\ faulty = FALSE
    BY <1>1, IdleMoves
  <2>2. pending \o <<c>> = <<c>>
    BY <2>1
  <2>. QED BY <2>1, <2>2 DEF Deliver
<1>5. PeerTypeOK'
  <2>1. <<c>> \in Seq(Chars)
    OBVIOUS
  <2>2. drift' \in -MaxDrift .. MaxDrift /\ left' \in Nat /\ index' \in 0 .. 10
    BY <1>1, Tolerance, TickFacts
  <2>3. pending' \in Seq(Chars) /\ faulty' \in BOOLEAN /\ hit' \in BOOLEAN
        /\ word' \in Chars \cup {NoWord}
    BY <1>1, <1>4, <2>1
  <2>. QED BY <1>2, <2>2, <2>3 DEF PeerTypeOK
<1>6. Unnoticed' /\ ~Done' /\ ~Judged'
  BY <1>1, <1>2, <1>3 DEF Unnoticed, Done, Judged
<1>7. FrameInv'
  BY <1>1, <1>2, Tolerance, TickFacts DEF FrameInv
<1>. QED BY <1>1, <1>2, <1>3, <1>4, <1>5, <1>6, <1>7
         DEF PeerInv, PhaseInv, PendingInv, GotInv

-----------------------------------------------------------------------------
(* Theorems *)

LEMMA PeerInvInit ==
    PeerInit => PeerInv
<1>. SUFFICES ASSUME PeerInit PROVE PeerInv
  OBVIOUS
<1>1. RxTypeOK
  BY TickFacts DEF PeerInit, RxInit, RxTypeOK, RxStates, Bit
<1>2. PeerTypeOK
  <2>1. left \in Nat /\ index \in 0 .. 10 /\ drift \in -MaxDrift .. MaxDrift
    BY Tolerance DEF PeerInit
  <2>2. pending \in Seq(Chars)
    BY DEF PeerInit
  <2>3. hit \in BOOLEAN /\ faulty \in BOOLEAN /\ word \in Chars \cup {NoWord}
    BY DEF PeerInit
  <2>. QED BY <1>1, <2>1, <2>2, <2>3 DEF PeerTypeOK
<1>. QED BY <1>2 DEF PeerInit, RxInit, PeerInv, FrameInv, PhaseInv, PendingInv, GotInv

LEMMA PeerInvStep ==
    PeerInv /\ [PeerTick]_<<lcr, rxVars, peerVars>> => PeerInv'
<1>. SUFFICES ASSUME PeerInv, [PeerTick]_<<lcr, rxVars, peerVars>> PROVE PeerInv'
  OBVIOUS
<1>1. CASE PeerTick
  <2>1. PICK wrong \in BOOLEAN :
           /\ Listen(wrong)
           /\ \/ (Stay \/ NextBit \/ EndFrame \/ StayIdle) /\ Deliver(<< >>)
              \/ \E c \in Chars : StartFrame(c) /\ Deliver(<<c>>)
    BY <1>1 DEF PeerTick, Listen
  <2>2. CASE \E c \in Chars : StartFrame(c) /\ Deliver(<<c>>)
    BY <2>1, <2>2, FrameStarts
  <2>3. CASE EndFrame /\ Deliver(<< >>)
    BY <2>1, <2>3, FrameEnds
  <2>4. CASE word = NoWord /\ (Stay \/ StayIdle) /\ Deliver(<< >>)
    BY <2>1, <2>4, IdleStays
  <2>5. CASE word # NoWord /\ (Stay \/ NextBit) /\ Deliver(<< >>)
    <3>1. \/ Unnoticed
          \/ Done
          \/ rx_fsm = "STOP" /\ rx_ticks = TICKS - 1
          \/ rx_fsm \in {"START", "DATA", "PARITY"} /\ rx_ticks = TICKS - 1
          \/ rx_fsm # "IDLE" /\ rx_ticks < TICKS - 1
      <4>1. Unnoticed \/ Done \/ rx_fsm # "IDLE"
        BY <2>5 DEF PeerInv, PhaseInv
      <4>2. rx_fsm \in {"IDLE", "START", "DATA", "PARITY", "STOP"}
        BY PeerTyped DEF RxTypeOK, RxStates
      <4>3. rx_ticks = TICKS - 1 \/ rx_ticks < TICKS - 1
        BY PeerTyped, TickFacts
      <4>. QED BY <4>1, <4>2, <4>3
    <3>2. CASE Unnoticed
      BY <2>1, <2>5, <3>2, FrameUnnoticed
    <3>3. CASE Done \/ (rx_fsm = "STOP" /\ rx_ticks = TICKS - 1)
      BY <2>1, <2>5, <3>3, FrameAfterStop
    <3>4. CASE rx_fsm \in {"START", "DATA", "PARITY"} /\ rx_ticks = TICKS - 1
      BY <2>1, <2>5, <3>4, FrameBetween
    <3>5. CASE rx_fsm # "IDLE" /\ rx_ticks < TICKS - 1
      BY <2>1, <2>5, <3>5, FrameWithin
    <3>. QED BY <3>1, <3>2, <3>3, <3>4, <3>5
  <2>6. StayIdle => word = NoWord
    BY DEF StayIdle
  <2>7. NextBit => word # NoWord
    BY DEF NextBit
  <2>. QED BY <2>1, <2>2, <2>3, <2>4, <2>5, <2>6, <2>7
<1>2. CASE UNCHANGED <<lcr, rxVars, peerVars>>
  BY <1>2 DEF rxVars, peerVars, PeerInv, PeerTypeOK, RxTypeOK, FrameInv, PhaseInv,
              PendingInv, GotInv, Unnoticed, Done, Judged, Lag, Elapsed, RxIndex,
              StopIndex, SamplesInv, RxGot, RxBit, Shifted, voted_din
<1>. QED BY <1>1, <1>2

\* The inductive invariant, through every tick of the receiver, whatever the
\* peer sends, however its clock drifts and whichever ticks are wrong.
THEOREM PeerInvariant ==
    PeerSpec => []PeerInv
  BY PeerInvInit, PeerInvStep, PTL DEF PeerSpec

\* Every register of uart_rx.sv stays within its width under an external clock
\* and a noisy line.
THEOREM PeerTypeCorrect ==
    PeerSpec => []PeerTypeOK
<1>1. PeerInv => PeerTypeOK
  BY DEF PeerInv
<1>. QED BY <1>1, PeerInvariant, PTL

\* The receiver delivers what the peer sends, without a parity or framing
\* error, within the whole tolerance of its sampling points (TICK_SAMPLE_A, B
\* and C) and with a wrong tick in every bit, for all characters, settings of
\* the line and oversampling rates.
THEOREM PeerIsFaithful ==
    PeerSpec => []PeerFaithful
<1>1. PeerInv => PeerFaithful
  BY DEF PeerInv, PeerFaithful
<1>. QED BY <1>1, PeerInvariant, PTL

\* Each frame is delivered before its stop bit is over, and the receiver is
\* back in IDLE for the next one: no frame is missed, however many there are
\* and whatever their pauses.
THEOREM PeerMissesNoFrame ==
    PeerSpec => []NoFrameMissed
<1>1. PeerInv => NoFrameMissed
  <2>1. PeerInv => pending = << >> \/ (word # NoWord /\ pending = <<word>>)
    BY DEF PeerInv, PendingInv
  <2>2. Len(<< >>) <= 1 /\ Len(<<word>>) <= 1
    OBVIOUS
  <2>. QED BY <2>1, <2>2 DEF NoFrameMissed
<1>. QED BY <1>1, PeerInvariant, PTL

-----------------------------------------------------------------------------
(* The peer and the receiver on any line *)

\* To the receiver a peer is one line among all: what is proved of it on any
\* line (SpacedOut, EveryFrameEnds) holds with a peer.
THEOREM PeerReceives ==
    PeerSpec => RxSpec
<1>1. PeerInit => AnyInit
  BY DEF PeerInit, AnyInit
<1>2. PeerInv /\ [PeerTick]_<<lcr, rxVars, peerVars>> => [RxNext]_<<lcr, rxVars>>
  <2>. SUFFICES ASSUME PeerInv, PeerTick PROVE RxNext
    OBVIOUS
  <2>1. PICK wrong \in BOOLEAN : Listen(wrong)
    BY DEF PeerTick, Listen
  <2>. QED BY <2>1, ListenTyped DEF Listen, RxNext, AnyTick
<1>. QED BY <1>1, <1>2, PeerInvariant, PTL DEF PeerSpec, RxSpec

-----------------------------------------------------------------------------
(* The queue of the scoreboard *)

\* The invariant, in terms of the scoreboard: the word that is owed is the one
\* that is pending.
QueueOnBoard ==
    /\ PeerInv
    /\ \/ pending = << >> /\ Owed = << >>
       \/ word # NoWord /\ pending = <<word>> /\ Owed = <<Masked(word, lcr)>>

LEMMA BoardMasks ==
    \A c, l : Scoreboard!Masked(c, l) = Masked(c, l)
  BY DEF Scoreboard!Masked, Scoreboard!WordLen, Masked, WordLen

\* A delivery hands over the word that is owed, and the next one has not begun.
LEMMA DeliveryOnBoard ==
    ASSUME QueueOnBoard, QueueOnBoard', PeerTick, rx_done'
    PROVE  Scoreboard!read
<1>1. PeerInv /\ PeerInv' /\ lcr' = lcr /\ faulty' = FALSE
  BY DEF QueueOnBoard, PeerTick, PeerInv
<1>2. ~rx_done
  BY TickFacts DEF PeerTick, RxTick, rx_done
<1>3. PICK sent : Deliver(sent) /\ (sent = << >> \/ word = NoWord)
  BY DEF PeerTick, StartFrame
<1>4. /\ pending # << >>
      /\ rx_out' = [data |-> Masked(Head(pending), lcr), perr |-> FALSE, ferr |-> FALSE]
      /\ pending' = Tail(pending) \o sent
  BY <1>1, <1>2, <1>3 DEF Deliver
<1>5. word # NoWord /\ pending = <<word>> /\ Owed = <<Masked(word, lcr)>>
  BY <1>4 DEF QueueOnBoard
<1>6. Head(pending) = word /\ Tail(pending) = << >>
  BY <1>5
<1>7. pending' = << >>
  <2>1. << >> \o << >> = << >>
    OBVIOUS
  <2>. QED BY <1>3, <1>4, <1>5, <1>6, <2>1
<1>8. Owed' = << >>
  BY <1>7 DEF QueueOnBoard
<1>9. Owed # << >> /\ Head(Owed) = Masked(word, lcr) /\ Tail(Owed) = << >>
  BY <1>5
<1>10. Delivered = << >> /\ Delivered' = <<rx_out'>>
  BY <1>2 DEF Delivered
<1>11. rx_out' = Scoreboard!Clean(Head(Owed))
  BY <1>4, <1>6, <1>9 DEF Scoreboard!Clean
<1>. QED BY <1>1, <1>8, <1>9, <1>10, <1>11 DEF Scoreboard!read

\* The start of a frame is a write: the receiver is at rest and owes nothing.
LEMMA StartOnBoard ==
    ASSUME QueueOnBoard, QueueOnBoard', NEW wrong, Listen(wrong),
           NEW c \in Chars, StartFrame(c), Deliver(<<c>>)
    PROVE  Scoreboard!write(c)
<1>1. PeerInv /\ word = NoWord /\ left <= 1 /\ word' = c /\ c # NoWord /\ lcr' = lcr
  BY PeerAssumption DEF QueueOnBoard, StartFrame, Listen
<1>2. pending = << >> /\ rx_fsm = "IDLE" /\ rx_fsm' = "IDLE"
  BY <1>1, IdleMoves
<1>3. pending' = <<c>>
  <2>1. << >> \o <<c>> = <<c>>
    OBVIOUS
  <2>. QED BY <1>2, <2>1 DEF Deliver, rx_done
<1>4. Delivered = << >> /\ Delivered' = << >>
  BY <1>2 DEF Delivered, rx_done
<1>5. Owed = << >>
  BY <1>1 DEF QueueOnBoard
<1>6. Owed' = <<Masked(c, lcr)>>
  <2>1. <<c>> # << >>
    OBVIOUS
  <2>. QED BY <1>1, <1>3, <2>1 DEF QueueOnBoard
<1>7. Len(Owed) < 1 /\ Append(Owed, Masked(c, lcr)) = <<Masked(c, lcr)>>
  BY <1>5
<1>8. Scoreboard!Masked(c, lcr) = Masked(c, lcr)
  BY BoardMasks
<1>. QED BY <1>1, <1>4, <1>6, <1>7, <1>8 DEF Scoreboard!write

\* Any other tick ends a handing-over or does nothing that the scoreboard sees.
LEMMA OtherTickOnBoard ==
    ASSUME QueueOnBoard, QueueOnBoard', PeerTick, Deliver(<< >>), ~rx_done'
    PROVE  Scoreboard!take \/ UNCHANGED <<lcr, Owed, Delivered>>
<1>1. PeerInv /\ lcr' = lcr /\ pending \in Seq(Chars)
  BY DEF QueueOnBoard, PeerTick, PeerInv, PeerTypeOK
<1>2. pending' = pending
  <2>1. pending \o << >> = pending
    BY <1>1, ConcatEmptySeq
  <2>. QED BY <2>1 DEF Deliver
<1>3. Owed' = Owed
  <2>1. CASE pending = << >>
    <3>1. \A w : <<w>> # << >>
      OBVIOUS
    <3>. QED BY <1>2, <2>1, <3>1 DEF QueueOnBoard
  <2>2. CASE pending # << >>
    <3>1. pending = <<word>> /\ Owed = <<Masked(word, lcr)>>
      BY <2>2 DEF QueueOnBoard
    <3>2. pending' = <<word'>> /\ Owed' = <<Masked(word', lcr')>>
      BY <1>2, <2>2 DEF QueueOnBoard
    <3>3. word' = word
      BY <1>2, <3>1, <3>2
    <3>. QED BY <1>1, <3>1, <3>2, <3>3
  <2>. QED BY <2>1, <2>2
<1>4. Delivered' = << >> /\ (rx_done => Delivered # << >>) /\ (~rx_done => Delivered = << >>)
  <2>1. \A w : <<w>> # << >>
    OBVIOUS
  <2>. QED BY <2>1 DEF Delivered
<1>. QED BY <1>1, <1>3, <1>4 DEF Scoreboard!take

\* To a peer within the tolerance the receiver implements the queue of the
\* scoreboard, with one place: for all characters, settings of the line,
\* oversampling rates, drifts, pauses and wrong ticks.
THEOREM PeerIsQueue ==
    PeerSpec => PeerImplementsScoreboard
<1>1. PeerInv => QueueOnBoard
  BY DEF PeerInv, PendingInv, Owed, QueueOnBoard
<1>2. PeerInit => Scoreboard!Init
  BY DEF PeerInit, RxInit, Owed, Delivered, rx_done, Scoreboard!Init
<1>3. QueueOnBoard /\ QueueOnBoard' /\ [PeerTick]_<<lcr, rxVars, peerVars>>
      => [Scoreboard!Next]_(Scoreboard!boardVars)
  <2>. SUFFICES ASSUME QueueOnBoard, QueueOnBoard',
                       [PeerTick]_<<lcr, rxVars, peerVars>>
                PROVE  Scoreboard!Next \/ UNCHANGED <<lcr, Owed, Delivered>>
    BY DEF Scoreboard!boardVars
  <2>1. CASE PeerTick
    <3>1. CASE rx_done'
      BY <2>1, <3>1, DeliveryOnBoard DEF Scoreboard!Next
    <3>2. CASE Deliver(<< >>) /\ ~rx_done'
      BY <2>1, <3>2, OtherTickOnBoard DEF Scoreboard!Next
    <3>3. ASSUME NEW wrong, Listen(wrong), NEW c \in Chars, StartFrame(c), Deliver(<<c>>)
          PROVE  Scoreboard!Next
      BY <3>3, StartOnBoard DEF Scoreboard!Next
    <3>4. PICK wrong \in BOOLEAN :
             /\ Listen(wrong)
             /\ Deliver(<< >>) \/ \E c \in Chars : StartFrame(c) /\ Deliver(<<c>>)
      BY <2>1 DEF PeerTick, Listen
    <3>. QED BY <3>1, <3>2, <3>3, <3>4
  <2>2. CASE UNCHANGED <<lcr, rxVars, peerVars>>
    BY <2>2 DEF rxVars, peerVars, Owed, Judged, Done, StopIndex, Delivered, rx_done, rx_out,
                sout, err_p, err_f, voted_din
  <2>. QED BY <2>1, <2>2
<1>. QED BY <1>1, <1>2, <1>3, PeerInvariant, PTL
         DEF PeerSpec, PeerImplementsScoreboard, Scoreboard!Spec
=============================================================================
