--------------------------- MODULE UartScoreboard ---------------------------
(***************************************************************************)
(* What the serial line promises: the scoreboard of tb_uvm_uart.  A word   *)
(* written is masked to the word length and queued; a word read must be    *)
(* the head of the queue.  The line hands a word over before the CPU reads *)
(* it, so that read happens as soon as it can: RBR and the receive FIFO    *)
(* are those of UartRegs.                                                  *)
(***************************************************************************)
EXTENDS UartFrame, Sequences

CONSTANT FIFO_DEPTH

VARIABLES tx_mem,   \* the words written and not yet read
          dout      \* the word that is handed over, with its error flags

boardVars == <<lcr, tx_mem, dout>>

\* The scoreboard never expects an error flag in a loopback.
Clean(w) == [data |-> w, perr |-> FALSE, ferr |-> FALSE]

\* The line may have been set up already.
Init == lcr \in LineCtrls /\ tx_mem = << >> /\ dout = << >>

\* A write that finds no place changes nothing.  (In 16450 mode the scoreboard
\* pushes it, and takes it back when LSR reports the overrun.)
write(c) == /\ Len(tx_mem) < FIFO_DEPTH
            /\ tx_mem' = Append(tx_mem, Masked(c, lcr))
            /\ UNCHANGED <<lcr, dout>>

read == /\ tx_mem # << >> /\ dout = << >>
        /\ dout' = <<Clean(Head(tx_mem))>>
        /\ tx_mem' = Tail(tx_mem)
        /\ UNCHANGED lcr

\* The word that was handed over is taken.
take == dout # << >> /\ dout' = << >> /\ UNCHANGED <<lcr, tx_mem>>

\* The sequences change the settings of the line with nothing queued.
check_apb_lcr == /\ tx_mem = << >> /\ dout = << >>
                 /\ lcr' \in LineCtrls
                 /\ UNCHANGED <<tx_mem, dout>>

flush == lcr' = LcrReset /\ tx_mem' = << >> /\ dout' = << >>

\* A sequence that clears the transmit FIFO has the queue deleted.  A word that
\* has already left the FIFO comes in all the same.
flush_queues == /\ \E n \in 0 .. 1 : /\ n <= Len(tx_mem)
                                    /\ tx_mem' = SubSeq(tx_mem, 1, n)
                /\ UNCHANGED <<lcr, dout>>

Next == \/ \E c \in Chars : write(c)
        \/ read
        \/ take
        \/ check_apb_lcr
        \/ flush
        \/ flush_queues

Spec == Init /\ [][Next]_boardVars
=============================================================================
