------------------------------ MODULE RiscvIsa ------------------------------
(***************************************************************************)
(* Words, instructions and their encoders: sequences.cpp of the RISC-V     *)
(* testbench and the packages it shares with the core.                     *)
(*                                                                         *)
(* Registers have XLEN bits.  The testbench builds for 32 and 64; TLC's    *)
(* integers allow 16, with everything that is 32 bits wide because the     *)
(* registers are (the sign of LUI, the shift amounts, the interrupt bit of *)
(* mcause) scaled along.  Instructions keep their format: an instruction   *)
(* is the record of the fields of its 32 bits.  The encodings for RV64     *)
(* only (OP-32) are left out.                                              *)
(***************************************************************************)
EXTENDS Integers, Sequences, Bitwise

CONSTANT XLEN

ASSUME XlenAssumption == XLEN \in 13 .. 16

WORD_LEN == XLEN \div 8

W(x) == x % 2^XLEN
Bits(x, hi, lo) == (x \div 2^lo) % 2^(hi - lo + 1)
BitNot(a) == W(-1 - a)
BitAnd(a, b) == W(a) & W(b)
BitOr(a, b) == W(a) | W(b)
BitXor(a, b) == W(a) ^^ W(b)

\* The signed value of the low bits of a number.
sign_extend(data, bits_num) ==
    LET d == data % 2^bits_num
    IN  IF d < 2^(bits_num - 1) THEN d ELSE d - 2^bits_num

\* a << n and (unsigned) a >> n of a word.
ShiftLeft(a, n) == (a % 2^(XLEN - n)) * 2^n
ShiftRight(a, n) == W(a) \div 2^n

\* (unsigned long) a < (unsigned long) b, of two numbers with a sign.
UnsignedLess(a, b) == IF (a < 0) = (b < 0) THEN a < b ELSE b < 0

-----------------------------------------------------------------------------
(* Opcodes *)

OPCODE == [S |-> 35, B |-> 99, LUI |-> 55, AUIPC |-> 23, JAL |-> 111, R |-> 51,
           ALU |-> 19, LOAD |-> 3, JALR |-> 103, SYSTEM |-> 115]
FUNCT3 == [ADD |-> 0, SUB |-> 0, SLL |-> 1, SLT |-> 2, SLTU |-> 3, XOR |-> 4,
           SRL |-> 5, SRA |-> 5, OR |-> 6, AND |-> 7]
B_TYPE == [BEQ |-> 0, BNE |-> 1, BLT |-> 4, BGE |-> 5, BLTU |-> 6, BGEU |-> 7]
CSR_OP == [CSRRW |-> 1, CSRRS |-> 2, CSRRC |-> 3, CSRRWI |-> 5, CSRRSI |-> 6,
           CSRRCI |-> 7]
CSR == [MIE |-> 772, MIP |-> 836, MTVEC |-> 773, MSCRATCH |-> 832, MEPC |-> 833,
        MCAUSE |-> 834, MTINST |-> 842, MSTATUS |-> 768]
SYSTEM_IMM == [ECALL |-> 0, EBREAK |-> 1, MRET |-> 770]

CSR_ADDR == <<CSR.MIE, CSR.MIP, CSR.MTVEC, CSR.MSCRATCH, CSR.MEPC, CSR.MCAUSE,
              CSR.MTINST, CSR.MSTATUS>>

IRQ_EXTERNAL == 2^(XLEN - 1) + 11   \* mcause of an external interrupt
SHIFTS == {"SLL", "SRL", "SRA"}

-----------------------------------------------------------------------------
(* Encoders: the immediate is cut to its width and scattered over the fields *)

Zero == [op |-> 0, rd |-> 0, f3 |-> 0, rs1 |-> 0, rs2 |-> 0, f7 |-> 0]
Illegal == [Zero EXCEPT !.op = 1]

\* The low XLEN bits of an instruction.
Value(i) == W(i.op + i.rd * 2^7 + i.f3 * 2^12 + (i.rs1 % 2) * 2^15)

seq_utype(op, rd, imm) ==
    [op |-> op, rd |-> rd % 32, f3 |-> Bits(imm, 2, 0), rs1 |-> Bits(imm, 7, 3),
     rs2 |-> Bits(imm, 12, 8), f7 |-> Bits(imm, 19, 13)]
seq_lui(rd, imm) == seq_utype(OPCODE.LUI, rd, imm)
seq_auipc(rd, imm) == seq_utype(OPCODE.AUIPC, rd, imm)

\* 20 | 10:1 | 11 | 19:12, of an offset of which bit 0 is not kept.
seq_jal(rd, imm) ==
    [op |-> OPCODE.JAL, rd |-> rd % 32, f3 |-> Bits(imm, 13, 11),
     rs1 |-> Bits(imm, 18, 14), rs2 |-> Bits(imm, 3, 0) * 2 + Bits(imm, 10, 10),
     f7 |-> Bits(imm, 19, 19) * 64 + Bits(imm, 9, 4)]

seq_stype(f3, rs1, rs2, imm) ==
    [op |-> OPCODE.S, rd |-> Bits(imm, 4, 0), f3 |-> f3, rs1 |-> rs1 % 32,
     rs2 |-> rs2 % 32, f7 |-> Bits(imm, 11, 5)]

seq_itype(op, f3, rd, rs1, imm, bit30) ==
    [op |-> op, rd |-> rd % 32, f3 |-> f3, rs1 |-> rs1 % 32,
     rs2 |-> Bits(imm, 4, 0), f7 |-> Bits(imm, 11, 5) + bit30 * 32]

\* 12 | 10:5 and 4:1 | 11, of an offset of which bit 0 is not kept.
seq_btype(f3, rs1, rs2, imm) ==
    [op |-> OPCODE.B, rd |-> Bits(imm, 3, 0) * 2 + Bits(imm, 10, 10), f3 |-> f3,
     rs1 |-> rs1 % 32, rs2 |-> rs2 % 32,
     f7 |-> Bits(imm, 11, 11) * 64 + Bits(imm, 9, 4)]

seq_rtype(f3, f7, rd, rs1, rs2) ==
    [op |-> OPCODE.R, rd |-> rd % 32, f3 |-> f3, rs1 |-> rs1 % 32,
     rs2 |-> rs2 % 32, f7 |-> f7]

\* The size of a store or a load of so many bits.
DmemSize(bits) == CASE bits = 8 -> 0 [] bits = 16 -> 1 [] bits = 24 -> 7
                    [] bits = 32 -> 2 [] bits = 64 -> 3
datamask(bits) == 2^bits - 1

set_stype(bits, rs1, rs2, imm) == seq_stype(DmemSize(bits), rs1, rs2, imm)

set_itype_load(bits, unsigned, rd, rs1, imm) ==
    LET f3 == IF unsigned /\ bits \in {8, 16, 32} THEN DmemSize(bits) + 4
              ELSE DmemSize(bits)
    IN  seq_itype(OPCODE.LOAD, f3, rd, rs1, imm, 0)

\* Immediate shift amounts are cut to the width of a register.
ItypeImm(alu, imm) == IF alu \in SHIFTS THEN imm % XLEN ELSE imm % 2^12

set_itype_arithmetic(alu, rd, rs1, imm) ==
    seq_itype(OPCODE.ALU, FUNCT3[alu], rd, rs1, ItypeImm(alu, imm),
              IF alu = "SRA" THEN 1 ELSE 0)
seq_addi(rd, rs1, imm) == set_itype_arithmetic("ADD", rd, rs1, imm)

set_rtype(alu, rd, rs1, rs2) ==
    seq_rtype(FUNCT3[alu], IF alu \in {"SUB", "SRA"} THEN 32 ELSE 0, rd, rs1, rs2)

set_btype(b, rs1, rs2, imm) == seq_btype(B_TYPE[b], rs1, rs2, imm)

set_csr(c, rd, rs1, csr) ==
    seq_itype(OPCODE.SYSTEM, CSR_OP[c], rd, rs1, csr, 0)

seq_ebreak == seq_itype(OPCODE.SYSTEM, 0, 0, 0, SYSTEM_IMM.EBREAK, 0)
seq_mret == seq_itype(OPCODE.SYSTEM, 0, 0, 0, SYSTEM_IMM.MRET, 0)
=============================================================================
