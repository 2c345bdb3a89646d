----------------------------- MODULE MCUartPeer -----------------------------
(* UartPeer with two characters that differ in most bits and in the parity  *)
(* of eight, eight data bits with a parity bit and five without.            *)
EXTENDS UartPeer

\* The bits of a byte, least significant first.
Byte(n) == [i \in 0 .. 7 |-> (n \div 2^i) % 2]

MCChars == {Byte(178), Byte(84)}        \* B2 and 54

MCLines == {[wls |-> 3, stb |-> 0, pen |-> TRUE, eps |-> TRUE, sp |-> FALSE],
            [wls |-> 0, stb |-> 0, pen |-> FALSE, eps |-> FALSE, sp |-> FALSE]}

\* The shortest pause the receiver tolerates with noise, and a long one: the
\* receiver must be back in IDLE for more than a tick, however fast the frame,
\* since a start bit sampled on the very tick after the stop bit is answered a
\* bit late (see README).
Pauses == {MaxDrift + 3, 2 * TICKS}
=============================================================================
