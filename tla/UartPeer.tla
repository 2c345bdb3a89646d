------------------------------ MODULE UartPeer ------------------------------
(***************************************************************************)
(* uart_rx.sv against an external transmitter with a clock of its own (the *)
(* pins sin and rclk of uart_top.sv).  The peer is external to the code:   *)
(* it sends frames of the agreed format, the start and the data bits last  *)
(* TICKS ticks give or take one, a frame drifts at most MaxDrift ticks,    *)
(* and a noisy line shows the wrong level for one tick of a bit.           *)
(***************************************************************************)
EXTENDS UartRx, Sequences

CONSTANTS MaxDrift,     \* ticks a frame may run ahead or behind
          Gaps,         \* idle ticks between two frames
          Noise,        \* whether the line is noisy
          NoWord        \* no frame is being sent

ASSUME PeerAssumption == /\ MaxDrift \in Nat
                         /\ Gaps \subseteq Nat \ {0}
                         /\ Noise \in BOOLEAN
                         /\ NoWord \notin Chars

\* A wrong first tick hides the start bit for one tick.
Late == IF Noise THEN 1 ELSE 0

\* What the receiver tolerates: the last sample of a bit is taken, a tick late,
\* before the fastest peer is through with it, and the receiver is back in IDLE
\* and its tick counter at rest before the next start bit.
ASSUME ToleranceAssumption == /\ MaxDrift + TICK_SAMPLE_C + 1 + Late < TICKS
                              /\ \A g \in Gaps : g >= MaxDrift + 2 + Late

VARIABLES word,         \* the character being sent
          index,        \* the bit of its frame that is on the line
          left,         \* ticks until the next bit, or of idle line
          drift,        \* how far the frame is behind its nominal timing
          hit,          \* this bit has had its wrong tick
          pending,      \* sent, and not delivered by the receiver
          faulty        \* the receiver delivered something else

peerVars == <<word, index, left, drift, hit, pending, faulty>>

StopIndex == WordLen(lcr) + (IF lcr.pen THEN 2 ELSE 1)
Level == IF word = NoWord THEN 1 ELSE FrameLevel(word, lcr, index)

\* The wrong tick falls within the start, data and parity bits.
MayHit == Noise /\ ~hit /\ word # NoWord /\ index < StopIndex

Stay == /\ left > 1
        /\ left' = left - 1
        /\ UNCHANGED <<word, index, drift>>

NextBit == /\ left <= 1 /\ word # NoWord /\ index < StopIndex
           /\ \E j \in {-1, 0, 1} :
                 /\ drift + j \in -MaxDrift .. MaxDrift
                 /\ drift' = drift + j
                 /\ left' = TICKS + j
           /\ index' = index + 1
           /\ UNCHANGED word

StartFrame(c) == /\ left <= 1
                 /\ word = NoWord
                 /\ word' = c
                 /\ index' = 0 /\ left' = TICKS /\ drift' = 0

EndFrame == /\ left <= 1 /\ word # NoWord /\ index = StopIndex
            /\ word' = NoWord
            /\ left' \in Gaps
            /\ index' = 0 /\ drift' = 0

StayIdle == left <= 1 /\ word = NoWord /\ UNCHANGED <<word, index, left, drift>>

\* The receiver delivers the oldest pending word, and the peer begins to send
\* the words of sent.
Deliver(sent) ==
    IF rx_done' /\ ~rx_done
    THEN /\ faulty' = (pending = << >> \/
                       rx_out' # [data |-> Masked(Head(pending), lcr),
                                  perr |-> FALSE, ferr |-> FALSE])
         /\ pending' = (IF pending = << >> THEN << >> ELSE Tail(pending)) \o sent
    ELSE faulty' = faulty /\ pending' = pending \o sent

\* A tick of rclk: the receiver samples the line, then the peer moves on.
PeerTick ==
    \E wrong \in BOOLEAN :
        /\ wrong => MayHit
        /\ UNCHANGED lcr
        /\ RxTick(IF wrong THEN BitNot(Level) ELSE Level)
        /\ hit' = (left > 1 /\ (hit \/ wrong))
        /\ \/ (Stay \/ NextBit \/ EndFrame \/ StayIdle) /\ Deliver(<< >>)
           \/ \E c \in Chars : StartFrame(c) /\ Deliver(<<c>>)

PeerInit == /\ lcr \in LineCtrls
            /\ RxInit
            /\ word = NoWord /\ index = 0 /\ left \in 0 .. 1 /\ drift = 0
            /\ hit = FALSE
            /\ pending = << >> /\ faulty = FALSE

PeerSpec == PeerInit /\ [][PeerTick]_<<lcr, rxVars, peerVars>>

PeerFairSpec == PeerSpec /\ WF_<<lcr, rxVars, peerVars>>(PeerTick)
-----------------------------------------------------------------------------
(* Properties *)

\* The registers stay within their widths.
PeerTypeOK == /\ RxTypeOK
              /\ word \in Chars \cup {NoWord}
              /\ index \in 0 .. 10
              /\ left \in Nat
              /\ drift \in -MaxDrift .. MaxDrift
              /\ hit \in BOOLEAN /\ faulty \in BOOLEAN
              /\ pending \in Seq(Chars)

\* The receiver delivers exactly what the peer sends, in order, unharmed and
\* without a parity or framing error: the three samples of uart_rx.sv stay
\* within their bit and outvote the wrong tick.
PeerFaithful == ~faulty

\* Each frame is delivered before it has left the line, so that no frame is
\* missed, and the receiver is back in time for the next one.
NoFrameMissed == /\ Len(pending) <= 1
                 /\ word = NoWord => pending = << >>

\* The receiver has voted on the stop bit.
Judged == rx_fsm = "STOP" /\ rx_ticks >= TICK_SAMPLE_D

\* The receiver is done before the frame is.
Done == rx_fsm = "IDLE" /\ index = StopIndex

\* The word on the line is owed until it has been judged.
Owed == IF word = NoWord \/ Judged \/ Done THEN << >> ELSE <<Masked(word, lcr)>>

Delivered == IF rx_done THEN <<rx_out>> ELSE << >>

Scoreboard == INSTANCE UartScoreboard
              WITH FIFO_DEPTH <- 1, tx_mem <- Owed, dout <- Delivered

\* To a peer with a clock of its own the receiver is the queue of the UVM
\* scoreboard as well: what the peer sends is handed over once, as sent, and
\* before the next word begins.
PeerImplementsScoreboard == Scoreboard!Spec
=============================================================================
