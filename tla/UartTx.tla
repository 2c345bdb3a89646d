------------------------------- MODULE UartTx -------------------------------
(***************************************************************************)
(* UART/uart_tx.sv with the transmit FIFO that feeds it (uart.sv).         *)
(* A TxTick is a rising edge of baudout together with what follows from it *)
(* before the next one: the rising edge of first_tick when the tick        *)
(* counter wraps, which clocks the FSM, the bit counter and the shift      *)
(* register, and the edge of clk at which tx_ready pulls the FIFO.         *)
(* The FIFO is the bounded queue that fifo.v implements (FifoQueue).       *)
(***************************************************************************)
EXTENDS UartFrame, Sequences

CONSTANT TxDepth    \* 2^UART_FIFO_ADDR_W in FIFO mode, 1 otherwise

ASSUME TxAssumption == TxDepth \in Nat \ {0}

VARIABLES thr,          \* the transmit FIFO
          tx_junk,      \* what its dout shows while it is empty
          tx_fsm,
          next_tx_fsm,  \* a latch: it keeps its value where no case assigns it
          count_ticks,
          count_bits,
          tsr           \* the shift register

txVars == <<lcr, thr, tx_junk, tx_fsm, next_tx_fsm, count_ticks, count_bits, tsr>>

TxStates == {"IDLE", "START", "DATA", "PARITY", "STOP", "STOP_HALF"}

tx_din(q) == IF q = << >> THEN tx_junk ELSE Head(q)
tx_start(q) == q # << >>

last_bit(bits, l) == bits >= 4 /\ bits - 4 = l.wls

\* Mutant: two stop bits of any word length are one and a half.
half_parityAny(l) == l.stb = 1

half_parity(l) == l.wls = 0 /\ l.stb = 1

\* Mutant: the stop bits are not counted.
cb_incrData(fsm) == fsm = "DATA"

cb_incr(fsm) == fsm \in {"DATA", "STOP"}

tx_dout == CASE tx_fsm = "START"  -> 0
             [] tx_fsm = "DATA"   -> tsr[0]
             [] tx_fsm = "PARITY" -> TxParity(tx_din(thr), lcr)
             [] OTHER             -> 1

\* The always_latch of the FSM, as a function of its inputs and its old value.
StartOrIdle(start) == IF start THEN "START" ELSE "IDLE"
TxLatch(fsm, bits, l, start, old) ==
    CASE fsm = "START"               -> "DATA"
      [] fsm = "DATA"                -> IF ~last_bit(bits, l) THEN old
                                        ELSE IF l.pen THEN "PARITY" ELSE "STOP"
      [] fsm = "PARITY"              -> "STOP"
      [] fsm = "STOP"                -> IF half_parity(l) THEN "STOP_HALF"
                                        ELSE IF bits = l.stb
                                        THEN StartOrIdle(start) ELSE old
      [] fsm \in {"IDLE", "STOP_HALF"} -> StartOrIdle(start)

\* The latch follows every change of its inputs.
LatchFollows ==
    next_tx_fsm' = TxLatch(tx_fsm', count_bits', lcr', tx_start(thr'), next_tx_fsm)

\* The half stop bit skips the first half of the tick counter.
TicksNext ==
    LET half == TICKS \div 2
        from == IF tx_fsm = "STOP_HALF" /\ count_ticks < half
                THEN count_ticks + half ELSE count_ticks
    IN  (from + 1) % TICKS

\* The rising edge of first_tick.
FirstTick ==
    /\ tx_fsm' = next_tx_fsm
    /\ count_bits' = IF ~cb_incr(tx_fsm) \/ last_bit(count_bits, lcr) THEN 0
                     ELSE (count_bits + 1) % 8
    /\ tsr' = CASE tx_fsm = "START" -> tx_din(thr)
                [] tx_fsm = "DATA"  -> [i \in 0 .. 7 |-> IF i = 7 THEN 0 ELSE tsr[i + 1]]
                [] OTHER            -> tsr

\* Mutant: the word is pulled when it has been loaded into the shift register.
tx_readyEarly == tx_fsm = "DATA" /\ count_bits = 0 /\ count_ticks = 1

\* Mutant: tx_ready is a level of a whole stop bit.
tx_readyLong == tx_fsm = "STOP" /\ count_bits = 0

\* tx_ready rises in the second tick of the first stop bit.
tx_ready == tx_fsm = "STOP" /\ count_bits = 0 /\ count_ticks = 1

TxTick ==
    /\ count_ticks' = TicksNext
    /\ IF count_ticks' = 0 THEN FirstTick
                           ELSE UNCHANGED <<tx_fsm, count_bits, tsr>>
    /\ thr' = IF tx_ready' /\ thr # << >> THEN Tail(thr) ELSE thr
    /\ UNCHANGED <<lcr, tx_junk>>
    /\ LatchFollows

\* The CPU writes THR: tx_push = wr_uart & ~tx_full.
WriteThr(c) ==
    /\ thr' = IF Len(thr) < TxDepth THEN Append(thr, c) ELSE thr
    /\ UNCHANGED <<lcr, tx_junk, tx_fsm, count_ticks, count_bits, tsr>>
    /\ LatchFollows

\* The CPU writes FCR with TXCLR: the FIFO is empty and shows the word in its
\* first slot, whatever that is.
ClearTx ==
    /\ thr' = << >>
    /\ tx_junk' \in Chars
    /\ UNCHANGED <<lcr, tx_fsm, count_ticks, count_bits, tsr>>
    /\ LatchFollows

\* The CPU writes LCR.
WriteLcr(l) ==
    /\ lcr' = l
    /\ UNCHANGED <<thr, tx_junk, tx_fsm, count_ticks, count_bits, tsr>>
    /\ LatchFollows

\* Master reset.  count_bits has no reset: when the reset itself makes
\* first_tick rise, the old or the new state of the FSM may clock it.
ResetTx ==
    /\ tx_fsm' = "IDLE"
    /\ count_ticks' = 0
    /\ tsr' = [i \in 0 .. 7 |-> 0]
    /\ count_bits' \in {0, count_bits, (count_bits + 1) % 8}
    /\ thr' = << >>
    /\ tx_junk' \in Chars
    /\ LatchFollows

TxInit ==
    /\ lcr \in LineCtrls
    /\ thr = << >>
    /\ tx_junk \in Chars
    /\ tx_fsm = "IDLE" /\ next_tx_fsm = "IDLE"
    /\ count_ticks = 0
    /\ count_bits \in {0, 7}     \* not reset: any value, cleared in IDLE
    /\ tsr = [i \in 0 .. 7 |-> 0]
-----------------------------------------------------------------------------
(* Properties *)

\* The registers of the transmitter stay within their widths, its FIFO within
\* its depth.
TxTypeOK ==
    /\ lcr \in LineCtrls
    /\ thr \in Seq(Chars) /\ Len(thr) <= TxDepth
    /\ tx_junk \in Chars
    /\ tx_fsm \in TxStates /\ next_tx_fsm \in TxStates
    /\ count_ticks \in 0 .. TICKS - 1
    /\ count_bits \in 0 .. 7
    /\ tsr \in [0 .. 7 -> Bit]

\* The index within the frame of the bit that is on the line.
FrameIndex == CASE tx_fsm = "START"  -> 0
                [] tx_fsm = "DATA"   -> 1 + count_bits
                [] tx_fsm = "PARITY" -> WordLen(lcr) + 1
                [] OTHER             -> WordLen(lcr) + 2

\* While a frame is on the line, its character is still the head of the FIFO
\* and the line shows the bit of that character's frame that is due: shift
\* register, bit counter, FSM and FIFO agree.  (uart_tx.sv takes data bits
\* from the shift register but the parity from the FIFO output.)
LineIsFrame ==
    tx_fsm \in {"START", "DATA", "PARITY"} =>
        /\ thr # << >>
        /\ tx_dout = FrameLevel(Head(thr), lcr, FrameIndex)

\* Reference: the ticks of the stop bits and of a whole frame of the 16550.
StopTicks(l) == IF l.stb = 0 THEN TICKS
                ELSE IF WordLen(l) = 5 THEN TICKS + TICKS \div 2
                ELSE 2 * TICKS
ParityTicks(l) == IF l.pen THEN TICKS ELSE 0
FrameTicks(l) == (1 + WordLen(l)) * TICKS + ParityTicks(l) + StopTicks(l)

\* The ticks that are left of the frame on the line, its stop bits included.
FrameLeft ==
    CASE tx_fsm = "IDLE"      -> 0
      [] tx_fsm = "START"     -> FrameTicks(lcr) - count_ticks
      [] tx_fsm = "DATA"      -> (WordLen(lcr) - count_bits) * TICKS - count_ticks
                                 + ParityTicks(lcr) + StopTicks(lcr)
      [] tx_fsm = "PARITY"    -> TICKS + StopTicks(lcr) - count_ticks
      [] tx_fsm = "STOP"      -> StopTicks(lcr) - count_bits * TICKS - count_ticks
      [] tx_fsm = "STOP_HALF" -> IF count_ticks = 0 THEN TICKS \div 2 ELSE TICKS - count_ticks

\* A frame lasts as long as its start, data, parity and stop bits, one and a
\* half and two stop bits included: every tick takes one off it, and only when
\* none is left the line rests or the next frame is begun.  (uart_tx.sv counts
\* data and stop bits in one register, and half a stop bit in the tick counter.)
FrameTick == IF FrameLeft > 1 THEN FrameLeft' = FrameLeft - 1
                              ELSE FrameLeft' \in {0, FrameTicks(lcr)}
FrameLasts == [][TxTick => FrameTick]_txVars
=============================================================================
