------------------------------ MODULE UartLoop ------------------------------
(***************************************************************************)
(* The UART in loopback (uart.sv with MCR.LOOP set): the transmitter's     *)
(* output is the receiver's input and both run on baudout.  At a tick the  *)
(* receiver samples the level the transmitter drove since the last tick.   *)
(***************************************************************************)
EXTENDS UartTx, UartRx

VARIABLES expected,     \* what was written to THR and has not come back yet
          faulty        \* a word came back that is not the expected one

loopVars == <<lcr, txVars, rxVars, expected, faulty>>

\* rx_ready: the receiver delivers a word at the tick at which rx_done rises.
Deliver ==
    IF rx_done' /\ ~rx_done
    THEN /\ expected' = IF expected = << >> THEN << >> ELSE Tail(expected)
         /\ faulty' = (expected = << >> \/
                       rx_out' # [data |-> Masked(Head(expected), lcr),
                                  perr |-> FALSE, ferr |-> FALSE])
    ELSE UNCHANGED <<expected, faulty>>

Tick == TxTick /\ RxTick(tx_dout) /\ Deliver

Write(c) == /\ WriteThr(c)
            /\ expected' = IF thr' = thr THEN expected ELSE Append(expected, c)
            /\ UNCHANGED <<rxVars, faulty>>

\* A frame is on the line and its word has not been pulled from the FIFO: that
\* happens in the second tick of the first stop bit.
OnLine == \/ tx_fsm \in {"START", "DATA", "PARITY"}
          \/ tx_fsm = "STOP" /\ count_bits = 0 /\ count_ticks = 0

\* FCR.TXCLR: what is still queued is given up, the word that is being sent or
\* judged is not.
Clear == /\ ClearTx
         /\ expected' = IF expected # << >> /\ (OnLine \/ Len(expected) > Len(thr))
                        THEN <<Head(expected)>> ELSE << >>
         /\ UNCHANGED <<rxVars, faulty>>

ClearBetweenFrames == ~OnLine /\ Clear

\* The settings of the line change only between frames (MCR, LCR and the
\* divisor are set up while nothing is in flight).
SetLine(l) == /\ expected = << >> /\ tx_fsm = "IDLE" /\ rx_fsm = "IDLE"
              /\ WriteLcr(l)
              /\ UNCHANGED <<rxVars, expected, faulty>>

Reset == /\ ResetTx /\ ResetRx
         /\ lcr' = LcrReset
         /\ expected' = << >>
         /\ UNCHANGED faulty

LoopInit == TxInit /\ RxInit /\ expected = << >> /\ faulty = FALSE

LoopNext == \/ Tick
            \/ \E c \in Chars : Write(c)
            \/ \E l \in LineCtrls \ {lcr} : SetLine(l)
            \/ Reset
            \/ ClearBetweenFrames

LoopSpec == LoopInit /\ [][LoopNext]_loopVars

\* The CPU clears the transmit FIFO whenever it likes.
LoopClearSpec == LoopInit /\ [][LoopNext \/ Clear]_loopVars

\* baudout keeps ticking.
LoopFairSpec == LoopSpec /\ WF_loopVars(Tick)
-----------------------------------------------------------------------------
(* Properties *)

\* The word whose stop bit is on the line and that is not yet judged has left
\* the FIFO.
Judging == tx_fsm = "STOP" /\ count_bits = 0 /\ count_ticks \in 1 .. TICK_SAMPLE_D

\* Both sides are well typed, and so are the observer's variables.
LoopTypeOK == /\ TxTypeOK /\ RxTypeOK
              /\ expected \in Seq(Chars)
              /\ faulty \in BOOLEAN

\* Every word that comes back is the next one written, without a parity or a
\* framing error, whatever the word length, parity and stop bits.
Faithful == ~faulty

\* Nothing is lost between the FIFO and the receiver: a word that has not come
\* back is still in the transmit FIFO, except the one whose stop bit is on the
\* line and not yet judged.
NothingLost == Len(expected) - Len(thr) \in {0, 1}

\* What tx_byte promises (uart_driver.h, "1 if data was accepted by uart"):
\* an accepted word is not dropped.  When everything has come to rest nothing
\* is still owed.
AcceptedIsSent == tx_fsm = "IDLE" /\ rx_fsm = "IDLE" /\ thr = << >>
                  => expected = << >>

\* A word that is under way is always followed by a delivery, unless a reset
\* gives everything up: the transmitter, the FIFO and the receiver never wait
\* for each other.
ComesBack == expected # << >> ~> rx_done \/ expected = << >>

\* What the serial line owes: the word that is being judged, as the receiver
\* has it, and those in the transmit FIFO, as they will be sent.
Owed == (IF Judging THEN <<sout>> ELSE << >>)
        \o [i \in DOMAIN thr |-> Masked(thr[i], lcr)]

Delivered == IF rx_done THEN <<rx_out>> ELSE << >>

Scoreboard == INSTANCE UartScoreboard
              WITH FIFO_DEPTH <- TxDepth + 1, tx_mem <- Owed, dout <- Delivered

\* Transmitter, FIFO and receiver together are the queue of the UVM scoreboard:
\* a word written is masked and appended, the words are handed over from the
\* head, each once and without an error flag, and only a clear or a reset takes
\* any away.
ImplementsScoreboard == Scoreboard!Spec
=============================================================================
