------------------------------ MODULE RiscvAlu ------------------------------
(***************************************************************************)
(* Words of the RISC-V core in the build of 32 bits, and its ALU (alu.sv). *)
(* A word is the set of its bits that are 1, so that the operations on     *)
(* bits are those on sets.                                                 *)
(***************************************************************************)
EXTENDS Integers

XLEN == 32
Bits == 0 .. XLEN - 1
Word == SUBSET Bits

\* The word of a number, which fits into the integers of TLC.
ToWord(n) == {i \in 0 .. 30 : (n \div 2^i) % 2 = 1}

BitNot(a) == Bits \ a

\* The carry into bit i: it comes from a lower bit where both are 1, or from
\* carry_in, and no bit between stops it.
Carry(a, b, carry_in, i) ==
    \/ carry_in /\ \A k \in 0 .. i - 1 : k \in a \cup b
    \/ \E j \in a \cap b : j < i /\ \A k \in j + 1 .. i - 1 : k \in a \cup b

\* A bit of the sum is set when one or three of a, b and the carry are 1 there.
\* The adder subtracts by adding the complement and one.
Sum(a, b, carry_in) ==
    {i \in Bits : ((i \in a) <=> (i \in b)) <=> Carry(a, b, carry_in, i)}
Add(a, b) == Sum(a, b, FALSE)
Subtract(a, b) == Sum(a, BitNot(b), TRUE)

\* a is below b: the highest bit in which they differ is b's.
Below(a, b) ==
    \E i \in b \ a : \A j \in Bits : j > i => (j \in a) = (j \in b)

\* As Below, with the sign for the highest bit.
FlipSign(a) == IF XLEN - 1 \in a THEN a \ {XLEN - 1} ELSE a \cup {XLEN - 1}
SignedBelow(a, b) == Below(FlipSign(a), FlipSign(b))

\* The low five bits, as a number.
shifts_num(b) == CHOOSE n \in Bits : \A i \in 0 .. 4 : (i \in b) = ((n \div 2^i) % 2 = 1)

AluOps == {"ADD", "SUB", "SLL", "SRL", "SRA", "XOR", "AND", "OR", "SLT", "SLTU"}

alu_res(op, a, b) ==
    CASE op = "ADD"  -> Add(a, b)
      [] op = "SUB"  -> Subtract(a, b)
      [] op = "SLL"  -> {i \in Bits : i - shifts_num(b) \in a}
      [] op = "SRL"  -> {i \in Bits : i + shifts_num(b) \in a}
      [] op = "SRA"  -> {i \in Bits : IF i + shifts_num(b) \in Bits THEN i + shifts_num(b) \in a
                                                                    ELSE XLEN - 1 \in a}
      [] op = "XOR"  -> (a \ b) \cup (b \ a)
      [] op = "AND"  -> a \cap b
      [] op = "OR"   -> a \cup b
      [] op = "SLT"  -> IF SignedBelow(a, b) THEN {0} ELSE {}
      [] op = "SLTU" -> IF Below(a, b) THEN {0} ELSE {}
=============================================================================
