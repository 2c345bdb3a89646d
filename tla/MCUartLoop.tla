----------------------------- MODULE MCUartLoop -----------------------------
(* UartLoop with two characters that differ in neighbouring bits, in the    *)
(* parity of words of seven bits and in the last bit of each word.          *)
EXTENDS UartLoop

\* The bits of a byte, least significant first.
Byte(n) == [i \in 0 .. 7 |-> (n \div 2^i) % 2]

MCChars == {Byte(178), Byte(85)}        \* B2 and 55

Line(wls, stb, pen, eps, sp) ==
    [wls |-> wls, stb |-> stb, pen |-> pen, eps |-> eps, sp |-> sp]

\* Words of 5, 7 and 8 bits, without parity and with an even, an odd and a
\* fixed bit, one stop bit, two and one and a half.
SomeLines == {LcrReset,
              Line(0, 1, TRUE, TRUE, TRUE),
              Line(2, 0, TRUE, FALSE, FALSE),
              Line(3, 1, TRUE, TRUE, FALSE)}
=============================================================================
