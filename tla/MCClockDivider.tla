--------------------------- MODULE MCClockDivider ---------------------------
(* ClockDivider with a counter of four bits and every divisor it can hold,  *)
(* so that even, odd, one and zero divisors are written in every order.     *)
EXTENDS ClockDivider

MCDivisors == 0 .. Span - 1
=============================================================================
