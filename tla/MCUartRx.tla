------------------------------ MODULE MCUartRx ------------------------------
(* UartRx on a line that may show anything.  The characters play no part.   *)
EXTENDS UartRx

NoChars == {}

\* The shortest word and the longest, without and with a parity bit.
MCLines == {[wls |-> 0, stb |-> 0, pen |-> FALSE, eps |-> FALSE, sp |-> FALSE],
            [wls |-> 3, stb |-> 0, pen |-> TRUE, eps |-> TRUE, sp |-> FALSE]}
=============================================================================
