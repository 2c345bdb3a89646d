---------------------------- MODULE MCUartDriver ----------------------------
(* UartDriver with the values of the code: FIFOs of sixteen words, sixteen   *)
(* ticks per bit, a thousand polls.                                         *)
EXTENDS UartDriver

MCChars == {Byte(n) : n \in 0 .. 255}
MCLines == {NoLine}
MCPast == {Byte(0), Byte(255)}
MCGaps == {0, 3, 7}
=============================================================================
