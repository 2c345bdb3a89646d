---------------------------- MODULE ClockDivider ----------------------------
(***************************************************************************)
(* modules/clock_divider.sv: the baud generator of the UART and the SPI.   *)
(* A step is a rising edge of clk_in, or a Load: an interval in which res  *)
(* is high and the divisor is written.  uart_top.sv drives res with        *)
(* baud_load (wen & dlab), so there the divisor latches never change while *)
(* res is low.                                                             *)
(***************************************************************************)
EXTENDS Integers

CONSTANTS Span,     \* 2^DIV_WIDTH, one more than the largest counter value
          Divisors  \* the divisors that are written

ASSUME SpanAssumption == Span \in Nat /\ Span >= 4
ASSUME DivisorsAssumption == Divisors \subseteq 0 .. Span - 1

VARIABLES div, polarity, phase,     \* inputs
          counter, baud_out         \* registers

vars == <<div, polarity, phase, counter, baud_out>>

Half(d) == d \div 2

cycle_full == counter = div
half_cycle == counter = Half(div)
\* Mutant: the output toggles only where both ends of a half cycle meet.
switch_clkBoth == cycle_full /\ half_cycle

switch_clk == cycle_full \/ half_cycle

\* Mutant: the counter is wider than its register.
next_countWide == counter + 1

next_count == IF counter = Span - 1 THEN 0 ELSE counter + 1

\* The output multiplexer over the divisor, given the level of clk_in.
clk_out(clk_in) == IF div > 1 THEN baud_out
                   ELSE IF div = 1 THEN clk_in
                   ELSE polarity

\* Mutant: a new divisor does not restart the count.
LoadKeepsCount(d, pol, ph) ==
    /\ div' = d /\ polarity' = pol /\ phase' = ph
    /\ counter' = counter
    /\ baud_out' = pol

\* Mutant: a new divisor does not restart the output.
LoadKeepsLevel(d, pol, ph) ==
    /\ div' = d /\ polarity' = pol /\ phase' = ph
    /\ counter' = IF ph THEN 0 ELSE 1
    /\ baud_out' = baud_out

\* What res does to the two registers, while the inputs may change.
Load(d, pol, ph) ==
    /\ div' = d /\ polarity' = pol /\ phase' = ph
    /\ counter' = IF ph THEN 0 ELSE 1
    /\ baud_out' = pol

Edge == /\ counter' = IF cycle_full THEN 1 ELSE next_count
        /\ baud_out' = IF switch_clk THEN ~baud_out ELSE baud_out
        /\ UNCHANGED <<div, polarity, phase>>

Init == /\ div \in Divisors /\ polarity \in BOOLEAN /\ phase \in BOOLEAN
        /\ counter = IF phase THEN 0 ELSE 1
        /\ baud_out = polarity

Next == \/ Edge
        \/ \E d \in Divisors, pol, ph \in BOOLEAN : Load(d, pol, ph)

Spec == Init /\ [][Next]_vars

\* clk_in does not stop.
FairSpec == Spec /\ WF_vars(Edge)
-----------------------------------------------------------------------------
(* Properties *)

\* The registers stay within their widths.
TypeOK == /\ div \in Divisors
          /\ polarity \in BOOLEAN /\ phase \in BOOLEAN
          /\ counter \in 0 .. Span - 1
          /\ baud_out \in BOOLEAN

\* The comment in clock_divider.sv: the counter is reloaded whenever a divisor
\* latch is, "to prevent long counts".  A counter that is past the divisor
\* would run on to the end of its width before the next cycle.
NoLongCount == div > 0 => counter <= div

\* The output is a square wave of one period per div clocks: at its initial
\* level in the first half of the count and inverted in the second, so the
\* level and the counter can never drift apart however often the divisor is
\* written.
WaveShape == div > 1 => (baud_out = polarity <=> counter <= Half(div))

\* A dividing clock never stops: whatever has been written before, once the
\* divisor is left alone both levels of the output keep coming back.
KeepsTicking ==
    <>[][Edge]_vars => /\ []<>(div <= 1 \/ baud_out)
                       /\ []<>(div <= 1 \/ ~baud_out)
=============================================================================
