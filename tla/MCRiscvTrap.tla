---------------------------- MODULE MCRiscvTrap ----------------------------
(* RiscvTrap with every program of a small shape: three instructions that   *)
(* set interrupts up, a loop of two instructions, and handlers of three.    *)
EXTENDS RiscvTrap, Sequences, TLC

Ins(op) == [Zero EXCEPT !.op = op]
Alu(op) == [Ins("ALU") EXCEPT !.alu = op]
Csr(alu, csr, vals) == [op |-> "CSR", alu |-> alu, csr |-> csr, vals |-> vals]
Set(csr, bit) == Csr("OR", csr, {{bit}})
Clear(csr, bit) == Csr("AND", csr, {{bit}})
Jump(a) == [Ins("JUMP") EXCEPT !.vals = {ToWord(a)}]

MCTrapBase == ToWord(988)       \* 3DC, as in risc_pkg.sv

\* Set-up at 0 to 8, the loop at 12 to 20, a handler at the trap base and the
\* one that is entered by an external interrupt in vectored mode 44 behind it.
Text(setup, first, second, handle, late) ==
    [n \in 0 .. 13 |->
        <<setup, Set("MIE", MEIE), Set("MSTATUS", MIE), first, second, Jump(12), Zero, Zero,
          handle, late, Ins("MRET"), handle, late, Ins("MRET")>>[n + 1]]
Address(n) == ToWord(IF n < 8 THEN 4 * n ELSE IF n < 11 THEN 988 + 4 * (n - 8)
                                         ELSE 1032 + 4 * (n - 11))
Program(setup, first, second, handle, late) ==
    LET text == Text(setup, first, second, handle, late)
    IN  [a \in {Address(n) : n \in 0 .. 13} |-> text[CHOOSE n \in 0 .. 13 : Address(n) = a]]

\* A handler may send the trap elsewhere (to an odd address, to the MRET
\* itself), skip an instruction, or decide on the enable it returns with.  Two
\* instructions of 16 bits fill the place of one.
MCPrograms ==
    {Program(setup, first, second, handle, late) :
        setup  \in {Ins("ALU"), Set("MTVEC", 0), Ins("ECALL")},
        first  \in {Ins("ALU"), Alu("AND"), Ins("ECALL"), Clear("MSTATUS", MIE)},
        second \in {Ins("ALU"), Ins("ILLEGAL"), Set("MSTATUS", MIE)},
        handle \in {Ins("ALU"), Ins("EBREAK"), Zero, Set("MEPC", 2),
                    Csr("ADD", "MEPC", {ToWord(9), ToWord(992)})},
        late   \in {Ins("ALU"), Set("MSTATUS", MIE), Csr("ADD", "MSTATUS", {{}, {MPIE}})}}
    \cup {Program(Set("MTVEC", 0), Alu(op), Ins("ILLEGAL16"), Ins("ALU"), Ins("ALU"))
              @@ (ToWord(18) :> Ins("ILLEGAL16")) : op \in AluOps}

\* The adder of the words is that of the numbers, and so is the comparison.
ASSUME SumsAreSums ==
    \A m, n \in {0, 1, 2, 4, 7, 9, 44, 988, 4095} :
        /\ Add(ToWord(m), ToWord(n)) = ToWord(m + n)
        /\ m >= n => Subtract(ToWord(m), ToWord(n)) = ToWord(m - n)
        /\ Add(Subtract(ToWord(m), ToWord(n)), ToWord(n)) = ToWord(m)
        /\ Below(ToWord(m), ToWord(n)) = (m < n)
        /\ SignedBelow(Subtract({}, ToWord(n)), ToWord(m)) = (m > 0 \/ n > 0)
        /\ n > 0 => Below(ToWord(m), Subtract({}, ToWord(n)))
=============================================================================
