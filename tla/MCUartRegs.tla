----------------------------- MODULE MCUartRegs -----------------------------
(* UartRegs with FIFOs of two words, words without an error, with a parity  *)
(* and with a framing error, every FCR value and the three useful settings  *)
(* of IER.                                                                  *)
EXTENDS UartRegs

MCWords == {[perr |-> FALSE, ferr |-> FALSE],
            [perr |-> TRUE, ferr |-> FALSE],
            [perr |-> FALSE, ferr |-> TRUE]}

MCFcrWrites == [fifoen : BOOLEAN, rxclr : BOOLEAN, txclr : BOOLEAN]

MCIerWrites == {[erbfi |-> TRUE, etbei |-> TRUE, elsi |-> TRUE],
                [erbfi |-> TRUE, etbei |-> TRUE, elsi |-> FALSE],
                [erbfi |-> FALSE, etbei |-> TRUE, elsi |-> TRUE]}
=============================================================================
