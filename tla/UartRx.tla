------------------------------- MODULE UartRx -------------------------------
(***************************************************************************)
(* UART/uart_rx.sv.  An RxTick(din) is a rising edge of rx_baud at which   *)
(* rx_din has the level din, together with the edges it causes: first_tick *)
(* rises when the tick counter becomes zero and clocks the FSM and the bit *)
(* counter, last_tick rises when it becomes all ones and clocks the shift  *)
(* register.                                                               *)
(***************************************************************************)
EXTENDS UartFrame

VARIABLES rx_fsm,
          next_rx_fsm,  \* a latch
          rx_ticks,     \* count_ticks: all ones while idle
          rx_bits,      \* count_bits
          s0, s1, s2,   \* the three samples of the current bit
          rsr_data,     \* the shift register
          parity_bit    \* a latch, transparent in PARITY

rxVars == <<rx_fsm, next_rx_fsm, rx_ticks, rx_bits, s0, s1, s2, rsr_data,
            parity_bit>>

RxStates == {"IDLE", "START", "DATA", "PARITY", "STOP"}

TICK_DELTA    == IF TICKS > 8 THEN 2 ELSE 1
TICK_SAMPLE_A == TICKS \div 2 - TICK_DELTA
TICK_SAMPLE_B == TICKS \div 2
TICK_SAMPLE_C == TICKS \div 2 + TICK_DELTA
TICK_SAMPLE_D == TICK_SAMPLE_C + 1

\* Mutant: the middle sample decides.
voted_dinMiddle == s1

\* At least two of the three samples decide.
voted_din == IF s0 + s1 + s2 >= 2 THEN 1 ELSE 0

\* Mutant: the last data bit is one bit too late, with eight bits never.
rx_last_bitLate == rx_bits = lcr.wls + 5

rx_last_bit == rx_bits >= 4 /\ rx_bits - 4 = lcr.wls

\* The word in the high bits of the shift register, right aligned.
sout == [i \in 0 .. 7 |-> IF i < WordLen(lcr)
                          THEN rsr_data[i + 8 - WordLen(lcr)] ELSE 0]

err_f == rx_fsm = "STOP" /\ voted_din = 0
err_p == lcr.pen /\ RxParity(sout, lcr) # parity_bit
rx_out == [data |-> sout, perr |-> err_p, ferr |-> err_f]

rx_done == rx_fsm = "STOP" /\ rx_ticks = TICK_SAMPLE_D

\* init_ct: the tick counter runs, outside IDLE always, in IDLE while the line
\* is low.
init_ct(din) == rx_fsm # "IDLE" \/ din = 0

StartOrIdleRx(din) == IF din = 0 THEN "START" ELSE "IDLE"

\* Mutant: the stop bit always ends in IDLE.
RxLatchNoRestart(fsm, voted, last, pen, din, old) ==
    CASE fsm = "START"  -> IF voted = 0 THEN "DATA" ELSE "IDLE"
      [] fsm = "DATA"   -> IF ~last THEN old
                           ELSE IF pen THEN "PARITY" ELSE "STOP"
      [] fsm = "PARITY" -> "STOP"
      [] fsm = "STOP"   -> "IDLE"
      [] fsm = "IDLE"   -> StartOrIdleRx(din)

\* The always_latch of the FSM, as a function of its inputs and its old value.
RxLatch(fsm, voted, last, pen, din, old) ==
    CASE fsm = "START"  -> IF voted = 0 THEN "DATA" ELSE "IDLE"
      [] fsm = "DATA"   -> IF ~last THEN old
                           ELSE IF pen THEN "PARITY" ELSE "STOP"
      [] fsm = "PARITY" -> "STOP"
      [] fsm \in {"STOP", "IDLE"} -> StartOrIdleRx(din)

Sample(din) ==
    /\ s0' = IF rx_ticks = TICK_SAMPLE_A THEN din ELSE s0
    /\ s1' = IF rx_ticks = TICK_SAMPLE_B THEN din ELSE s1
    /\ s2' = IF rx_ticks = TICK_SAMPLE_C THEN din ELSE s2

\* Mutant: the bit counter is one bit too wide.
RxFirstTickWide(din) ==
    /\ rx_fsm' = RxLatch(rx_fsm, voted_din, rx_last_bit, lcr.pen, din, next_rx_fsm)
    /\ rx_bits' = IF rx_fsm = "DATA" THEN rx_bits + 1 ELSE 0

\* The rising edge of first_tick.  The level of the line has reached the latch
\* before the tick.
RxFirstTick(din) ==
    /\ rx_fsm' = RxLatch(rx_fsm, voted_din, rx_last_bit, lcr.pen, din, next_rx_fsm)
    /\ rx_bits' = IF rx_fsm = "DATA" THEN (rx_bits + 1) % 8 ELSE 0

\* The rising edge of last_tick.
RxLastTick ==
    rsr_data' = IF rx_fsm = "DATA"
                THEN [i \in 0 .. 7 |-> IF i = 7 THEN voted_din ELSE rsr_data[i + 1]]
                ELSE rsr_data

RxTick(din) ==
    /\ rx_ticks' = IF init_ct(din) THEN (rx_ticks + 1) % TICKS ELSE TICKS - 1
    /\ Sample(din)
    /\ IF rx_ticks' = 0 THEN RxFirstTick(din) ELSE UNCHANGED <<rx_fsm, rx_bits>>
    /\ IF rx_ticks' = TICKS - 1 /\ rx_ticks # TICKS - 1
       THEN RxLastTick ELSE UNCHANGED rsr_data
    /\ parity_bit' = IF rx_fsm' = "PARITY" THEN voted_din' ELSE parity_bit
    /\ next_rx_fsm' = RxLatch(rx_fsm', voted_din', rx_last_bit', lcr.pen, din, next_rx_fsm)

\* Master reset.  The samples, the bit counter and the parity latch keep
\* what they hold.
ResetRx ==
    /\ rx_fsm' = "IDLE"
    /\ next_rx_fsm' = "IDLE"
    /\ rx_ticks' = TICKS - 1
    /\ rsr_data' = [i \in 0 .. 7 |-> 0]
    /\ UNCHANGED <<rx_bits, s0, s1, s2, parity_bit>>

RxInit ==
    /\ rx_fsm = "IDLE" /\ next_rx_fsm = "IDLE"
    /\ rx_ticks = TICKS - 1
    /\ rx_bits \in {0, 7} /\ parity_bit \in Bit
    /\ s0 \in Bit /\ s1 = s0 /\ s2 = s0
    /\ rsr_data = [i \in 0 .. 7 |-> 0]

\* The receiver alone starts idle, with any setting of the line.
AnyInit == lcr \in LineCtrls /\ RxInit

\* The receiver on a line that may show anything, broken frames, noise and
\* breaks included, while the CPU writes LCR and resets it whenever it likes.
AnyTick == UNCHANGED lcr /\ \E din \in Bit : RxTick(din)

\* Mutant: a write of LCR sets the latch of the state machine to the state
\* after the data bits.
WriteLcrRxEnds(l) ==
    /\ lcr' = l
    /\ UNCHANGED <<rx_fsm, rx_ticks, rx_bits, s0, s1, s2, rsr_data, parity_bit>>
    /\ next_rx_fsm' = IF rx_fsm \in {"IDLE", "STOP"} THEN next_rx_fsm
                      ELSE RxLatch(rx_fsm, voted_din, TRUE, l.pen, 1, next_rx_fsm)

\* A write of LCR reaches the latch of the state machine through last_bit and
\* pen.  In IDLE and STOP the latch follows the line only.
WriteLcrRx(l) ==
    /\ lcr' = l
    /\ UNCHANGED <<rx_fsm, rx_ticks, rx_bits, s0, s1, s2, rsr_data, parity_bit>>
    /\ next_rx_fsm' = IF rx_fsm \in {"IDLE", "STOP"} THEN next_rx_fsm
                      ELSE RxLatch(rx_fsm, voted_din, rx_last_bit', l.pen, 1, next_rx_fsm)

MasterResetRx == ResetRx /\ lcr' = LcrReset

RxNext == \/ AnyTick
          \/ \E l \in LineCtrls : WriteLcrRx(l)
          \/ MasterResetRx

RxSpec == AnyInit /\ [][RxNext]_<<lcr, rxVars>>
-----------------------------------------------------------------------------
(* Properties *)

\* The registers of the receiver stay within their widths.
RxTypeOK ==
    /\ rx_fsm \in RxStates /\ next_rx_fsm \in RxStates
    /\ rx_ticks \in 0 .. TICKS - 1 /\ rx_bits \in 0 .. 7
    /\ s0 \in Bit /\ s1 \in Bit /\ s2 \in Bit /\ parity_bit \in Bit
    /\ rsr_data \in [0 .. 7 -> Bit]

\* The ticks until the next word can be handed over, at the least: a start bit
\* and five data bits, those the receiver still has to go through, and the stop
\* bit up to its vote.
Ahead ==
    CASE rx_fsm = "IDLE"   -> 6 * TICKS + TICK_SAMPLE_D + 1
      [] rx_fsm = "START"  -> 6 * TICKS + TICK_SAMPLE_D - rx_ticks
      [] rx_fsm = "DATA"   -> (IF rx_bits <= 4 THEN 5 - rx_bits ELSE 1) * TICKS
                              + TICK_SAMPLE_D - rx_ticks
      [] rx_fsm = "PARITY" -> TICKS + TICK_SAMPLE_D - rx_ticks
      [] rx_fsm = "STOP"   -> IF rx_ticks < TICK_SAMPLE_D
                              THEN TICK_SAMPLE_D - rx_ticks
                              ELSE 7 * TICKS + TICK_SAMPLE_D - rx_ticks

\* Whatever the line shows and whenever LCR is written, two words are handed
\* over at least seven bits apart: after one it takes the receiver 7 * TICKS
\* ticks, and no tick counts for two.  (The FIFO glue of uart.sv relies on it:
\* rx_ready is an edge detector on rx_done.)
SpacedOut ==
    [][AnyTick => IF rx_done' /\ ~rx_done
                  THEN Ahead = 1 /\ Ahead' = 7 * TICKS
                  ELSE Ahead' >= Ahead - 1]_<<lcr, rxVars>>

\* The ticks that the frame can last, at the most.
Remaining ==
    CASE rx_fsm = "IDLE"   -> 0
      [] rx_fsm = "START"  -> 11 * TICKS - rx_ticks
      [] rx_fsm = "DATA"   -> (((lcr.wls + 4 - rx_bits) % 8) + 3) * TICKS - rx_ticks
      [] rx_fsm = "PARITY" -> 2 * TICKS - rx_ticks
      [] rx_fsm = "STOP"   -> TICKS - rx_ticks

\* No line, however broken, and no stale latch holds the receiver in a frame:
\* every tick brings it nearer to the end, which is at most eleven bits after
\* its beginning if LCR is left alone.
EveryFrameEnds ==
    [][AnyTick /\ Remaining > 1 => Remaining' < Remaining]_<<lcr, rxVars>>
=============================================================================
