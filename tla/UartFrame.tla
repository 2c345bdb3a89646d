----------------------------- MODULE UartFrame -----------------------------
(***************************************************************************)
(* The frame format that uart_tx.sv and uart_rx.sv both read off the line  *)
(* control register, and the constants they share.                         *)
(***************************************************************************)
EXTENDS Integers, FiniteSets

CONSTANTS Chars,    \* the characters written, functions from 0..7 to bits
          LineCtrls,\* the settings of LCR in use
          TICKS     \* UART_TICKS_NUM, baud ticks per bit

VARIABLE lcr        \* the line control register, read by both sides

Bit == {0, 1}
BitNot(b) == 1 - b

\* WLS selects 5 to 8 data bits, STB a longer stop, PEN/EPS/SP the parity.
LineCtrl == [wls : 0 .. 3, stb : Bit, pen : BOOLEAN, eps : BOOLEAN,
             sp : BOOLEAN]

ASSUME FrameAssumption == /\ Chars \subseteq [0 .. 7 -> Bit]
                          /\ LineCtrls \subseteq LineCtrl
                          /\ TICKS \in {8, 16, 32}  \* README: oversample rate 8, 16, 32

\* Master reset clears LCR in the register block above.
LcrReset == [wls |-> 0, stb |-> 0, pen |-> FALSE, eps |-> FALSE, sp |-> FALSE]

ASSUME ResetAssumption == LcrReset \in LineCtrls

WordLen(l) == l.wls + 5

\* The reduction xor of the low n bits of c.
XorBits(c, n) == Cardinality({i \in 0 .. n - 1 : c[i] = 1}) % 2

\* The parity bit of the transmitter (uart_tx.sv, parity and parity_bit).
TxParity(c, l) ==
    IF l.sp THEN (IF l.eps THEN 0 ELSE 1)
    ELSE IF l.eps THEN XorBits(c, WordLen(l))
    ELSE BitNot(XorBits(c, WordLen(l)))

\* Mutant: the receiver takes every kind of parity the wrong way round.
RxParitySwapped(sout, l) ==
    CASE ~l.sp /\ ~l.eps -> XorBits(sout, 8)
      [] ~l.sp /\ l.eps  -> BitNot(XorBits(sout, 8))
      [] l.sp /\ ~l.eps  -> 0
      [] l.sp /\ l.eps   -> 1

\* The parity the receiver expects of the right-aligned word sout, whose bits
\* above the word length are zero (uart_rx.sv, parity_val).
RxParity(sout, l) ==
    CASE ~l.sp /\ ~l.eps -> BitNot(XorBits(sout, 8))
      [] ~l.sp /\ l.eps  -> XorBits(sout, 8)
      [] l.sp /\ ~l.eps  -> 1
      [] l.sp /\ l.eps   -> 0

\* A character as its receiver sees it: the bits above the word length are
\* not transmitted.
Masked(c, l) == [i \in 0 .. 7 |-> IF i < WordLen(l) THEN c[i] ELSE 0]

\* Reference: the parity bit that makes the number of ones even or odd, or
\* sticks to one level.
ParityOf(c, l) ==
    IF l.sp THEN (IF l.eps THEN 0 ELSE 1)
    ELSE CHOOSE p \in Bit :
            LET ones == Cardinality({i \in 0 .. l.wls + 4 : c[i] = 1}) + p
            IN  (ones % 2 = 0) <=> l.eps

\* Reference: the levels of a 16550 frame, bit by bit up to the stop bit.
FrameLevel(c, l, k) ==
    CASE k = 0                       -> 0
      [] k \in 1 .. WordLen(l)       -> c[k - 1]
      [] k = WordLen(l) + 1 /\ l.pen -> ParityOf(c, l)
      [] OTHER                       -> 1
=============================================================================
