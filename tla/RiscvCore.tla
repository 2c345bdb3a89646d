----------------------------- MODULE RiscvCore ------------------------------
(***************************************************************************)
(* The RISC-V processor the testbench drives (riscv.sv and the blocks it   *)
(* instantiates), as functions on the record of its registers and          *)
(* memories: what it shows on the bus, and what a clock edge does.  It is  *)
(* built for 32 bits, with ZICSR and without CLINT; see RiscvIsa for the   *)
(* scaling.  An instruction is kept decoded into the fields of its bits.   *)
(***************************************************************************)
EXTENDS RiscvCommon, RiscvIsa, SequencesExt

BASIC_OPCODES == {OPCODE.S, OPCODE.B, OPCODE.LUI, OPCODE.AUIPC, OPCODE.JAL, OPCODE.R,
                  OPCODE.ALU, OPCODE.LOAD, OPCODE.JALR, OPCODE.SYSTEM}

-----------------------------------------------------------------------------
(* Decoder *)

c_type(i) == i.op = OPCODE.SYSTEM /\ i.f3 \notin {0, 4}
y_type(i) == i.op = OPCODE.SYSTEM /\ i.f3 = 0 /\ i.rs1 = 0 /\ i.rd = 0
sys_imm(i) == i.f7 * 32 + i.rs2

illegal_dec(i) ==
    \/ i.op \notin BASIC_OPCODES
    \/ i.op = OPCODE.B /\ i.f3 \in {2, 3}
    \/ i.op = OPCODE.SYSTEM /\ ~c_type(i) /\ ~y_type(i)

\* Opcode 0 counts as 32 bits wide.
is_32bit(i) == i.op = 0 \/ i.op % 4 = 3

immediate(i) ==
    CASE i.op = OPCODE.S -> W(sign_extend(i.f7 * 32 + i.rd, 12))
      [] i.op \in {OPCODE.ALU, OPCODE.LOAD, OPCODE.JALR, OPCODE.SYSTEM} ->
            W(sign_extend(sys_imm(i), 12))
      [] i.op = OPCODE.B ->
            W(sign_extend((i.f7 \div 64) * 2^12 + (i.rd % 2) * 2^11
                          + (i.f7 % 64) * 2^5 + (i.rd \div 2) * 2, 13))
      [] i.op \in {OPCODE.LUI, OPCODE.AUIPC} ->
            ShiftLeft(i.f7 * 2^13 + i.rs2 * 2^8 + i.rs1 * 2^3 + i.f3, 12)
      [] i.op = OPCODE.JAL ->
            W(sign_extend((i.f7 \div 64) * 2^20 + (i.rs1 * 8 + i.f3) * 2^12
                          + (i.rs2 % 2) * 2^11 + (i.f7 % 64) * 2^5 + (i.rs2 \div 2) * 2, 21))
      [] i.op \notin BASIC_OPCODES \/ i.op = OPCODE.R -> 0

-----------------------------------------------------------------------------
(* Arithmetic, branches and the widths of the data *)

alu(op, a, b) ==
    LET shifts_num == b % XLEN
    IN  CASE op = "ADD" -> W(a + b)
          [] op = "SUB" -> W(a - b)
          [] op = "SLL" -> ShiftLeft(a, shifts_num)
          [] op = "SRL" -> a \div 2^shifts_num
          [] op = "SRA" -> W(sign_extend(a, XLEN) \div 2^shifts_num)
          [] op = "XOR" -> BitXor(a, b)
          [] op = "AND" -> BitAnd(a, b)
          [] op = "OR" -> BitOr(a, b)
          [] op = "SLT" -> IF sign_extend(a, XLEN) < sign_extend(b, XLEN) THEN 1 ELSE 0
          [] op = "SLTU" -> IF a < b THEN 1 ELSE 0

ALU_BY_FUNCT3 == <<"ADD", "SLL", "SLT", "SLTU", "XOR", "SRL", "OR", "AND">>

\* Only an R instruction subtracts; bit 30 makes a shift arithmetic.
alu_op(i) ==
    CASE c_type(i) -> IF i.f3 \in {2, 6} THEN "OR" ELSE IF i.f3 \in {3, 7} THEN "AND" ELSE "ADD"
      [] i.op \in {OPCODE.R, OPCODE.ALU} ->
            IF (i.f7 \div 32) % 2 = 0 THEN ALU_BY_FUNCT3[i.f3 + 1]
            ELSE IF i.f3 = 5 THEN "SRA"
            ELSE IF i.f3 = 0 /\ i.op = OPCODE.R THEN "SUB" ELSE ALU_BY_FUNCT3[i.f3 + 1]
      [] ~c_type(i) /\ i.op \notin {OPCODE.R, OPCODE.ALU} -> "ADD"

branch_taken(i, a, b) ==
    /\ i.op = OPCODE.B
    /\ LET lt == sign_extend(a, XLEN) < sign_extend(b, XLEN)
       IN  CASE i.f3 = 0 -> a = b
             [] i.f3 = 1 -> a # b
             [] i.f3 = 4 -> lt
             [] i.f3 = 5 -> ~lt
             [] i.f3 = 6 -> a < b
             [] i.f3 = 7 -> a >= b
             [] i.f3 \in {2, 3} -> FALSE

IsByte(i) == i.op \in {OPCODE.S, OPCODE.LOAD} /\ i.f3 % 4 = 0

\* Stores put only the bytes of their size on the bus; loads extend a byte
\* from what they read, unless the load is unsigned.
data_handler(i, data) == IF IsByte(i) THEN data % 256 ELSE data
sign_extender(i, data) ==
    IF IsByte(i) /\ i.f3 < 4 THEN W(sign_extend(data % 256, 8)) ELSE data

-----------------------------------------------------------------------------
(* Combinational logic: what the registers and the pins make of each signal *)

Byte(mem, a) == IF a < Len(mem) THEN mem[a + 1] ELSE 0

\* The trap that an instruction and the interrupt pin begin.
Irq(c, irq) ==
    LET i == c.instruction
        irq_stop == y_type(i) /\ sys_imm(i) \in {770, 258, 1794}
        mmode_en == ~irq_stop /\ (Bits(c.csr[CSR.MSTATUS], 3, 3) = 1
                                  \/ Bits(c.csr[CSR.MSTATUS], 7, 7) = 1)
        external == mmode_en /\ Bits(c.csr[CSR.MIE], 11, 11) = 1 /\ irq = 1
        unknown == \/ c_type(i) /\ sys_imm(i) \notin ToSet(CSR_ADDR)
                   \/ y_type(i) /\ ~irq_stop /\ sys_imm(i) \notin {0, 1, 261}
        illegal == c.imem_req /\ ((illegal_dec(i) /\ i # Zero) \/ unknown)
        ecall == y_type(i) /\ sys_imm(i) = SYSTEM_IMM.ECALL
        break == y_type(i) /\ sys_imm(i) = SYSTEM_IMM.EBREAK
        irq_en == external \/ illegal \/ ecall \/ break
    IN  [irq_en |-> irq_en, irq_start |-> irq_en /\ ~c.irq_started, irq_stop |-> irq_stop,
         external |-> external,
         cause |-> IF external THEN IRQ_EXTERNAL ELSE IF illegal THEN 2
                   ELSE IF ecall THEN 11 ELSE IF break THEN 3 ELSE 0]

\* The value of the CSR multiplexer.
csr_out(c, q) ==
    LET i == c.instruction
    IN  IF q.irq_start THEN c.csr[CSR.MTVEC]
        ELSE IF q.irq_stop THEN c.csr[CSR.MEPC]
        ELSE IF c_type(i) /\ sys_imm(i) \in ToSet(CSR_ADDR) THEN c.csr[sys_imm(i)]
        ELSE c.csr[CSR.MSTATUS]

\* What the ALU yields: for a trap, of the vector and its offset, with the
\* operation of the trapped instruction; for a return, mepc + 4.
Alu(c, q, out) ==
    LET i == c.instruction
        rs1_data == c.regs[i.rs1 + 1]
        rs == IF i.f3 >= 4 THEN i.rs1 ELSE rs1_data
        offset == IF q.external /\ c.csr[CSR.MTVEC] % 2 = 1 THEN 4 * 11 ELSE 0
    IN  IF q.irq_stop THEN W(out + 4)
        ELSE IF q.irq_start THEN alu(alu_op(i), (out \div 4) * 4, offset)
        ELSE IF c_type(i)
             THEN alu(alu_op(i), IF i.f3 \in {3, 7} THEN BitNot(rs) ELSE rs,
                      IF i.f3 \in {2, 3, 6, 7} THEN out ELSE 0)
        ELSE alu(alu_op(i),
                 IF i.op \in {OPCODE.B, OPCODE.JAL, OPCODE.AUIPC} THEN c.pc ELSE rs1_data,
                 IF i.op = OPCODE.R THEN c.regs[i.rs2 + 1] ELSE immediate(i))

\* Everything the next clock edge and the bus depend on, of the trap q, the
\* value out of a CSR and the result res of the ALU.
Outputs(c, pins, q, out, res) ==
    LET i == c.instruction
        next_default == W(c.pc + (IF ~c.imem_req THEN 0 ELSE IF is_32bit(i) THEN 4 ELSE 2))
        jump == \/ branch_taken(i, c.regs[i.rs1 + 1], c.regs[i.rs2 + 1])
                \/ i.op \in {OPCODE.JAL, OPCODE.JALR}
                \/ q.irq_start \/ q.irq_stop
        loaded == IF res < DMEM_DEPTH
                  THEN IF IsByte(i) THEN Byte(c.mem, res)
                       ELSE Byte(c.mem, res) + Byte(c.mem, res + 1) * 256
                  ELSE pins.rd_data
    IN  [q |-> q, alu_res |-> res,
         next_pc |-> IF jump THEN (res \div 2) * 2 ELSE next_default,
         dmem_req |-> i.op \in {OPCODE.S, OPCODE.LOAD}, dmem_wr |-> i.op = OPCODE.S,
         wr_data |-> data_handler(i, c.regs[i.rs2 + 1]),
         rf_wr_en |-> i.op \notin {OPCODE.S, OPCODE.B} /\ i.rd # 0 /\ ~q.irq_start,
         rf_wr_data |-> CASE c_type(i) -> out
                          [] i.op = OPCODE.LUI -> immediate(i)
                          [] i.op \in {OPCODE.JAL, OPCODE.JALR} -> next_default
                          [] i.op = OPCODE.LOAD -> sign_extender(i, loaded)
                          [] ~c_type(i) /\ i.op \notin {OPCODE.LUI, OPCODE.JAL, OPCODE.JALR,
                                                        OPCODE.LOAD} -> res]

Trapped(c, pins, q, out) == Outputs(c, pins, q, out, Alu(c, q, out))
Decided(c, pins, q) == Trapped(c, pins, q, csr_out(c, q))
Signals(c, pins) == Decided(c, pins, Irq(c, pins.irq))

\* What the bus shows; the read data are what the testbench drives.
BusOf(c, pins, s) ==
    [req |-> IF s.dmem_req THEN 1 ELSE 0, wr |-> IF s.dmem_wr THEN 1 ELSE 0,
     addr |-> s.alu_res, wr_data |-> s.wr_data, rd_data |-> pins.rd_data,
     stop |-> c.pc # 0 /\ c.instruction = Zero]
Bus(c, pins) == BusOf(c, pins, Signals(c, pins))

-----------------------------------------------------------------------------
(* Clock edges and reset *)

\* Rising edge: the program counter, and the instruction it fetches.
RiseOf(c, s) ==
    LET pc == IF c.imem_req THEN s.next_pc ELSE c.pc
        req == c.pc = 0 \/ c.instruction # Zero
    IN  [c EXCEPT !.pc = pc, !.imem_req = req, !.irq_started = c.imem_req /\ s.q.irq_en,
                  !.instruction = IF ~req THEN @
                                  ELSE IF pc \div 4 < Len(c.imem) THEN c.imem[pc \div 4 + 1]
                                  ELSE Zero]
Rise(c, pins) == RiseOf(c, Signals(c, pins))

\* The control and status registers at a falling edge.
CsrWrite(c, q, csr_din) ==
    LET i == c.instruction
        written == IF c_type(i) /\ i.rs1 # 0 THEN sys_imm(i) ELSE -1
        mstatus == c.csr[CSR.MSTATUS]
        low == mstatus - Bits(mstatus, 3, 3) * 8 - Bits(mstatus, 7, 7) * 128
        trapped == [c.csr EXCEPT ![CSR.MEPC] = c.pc, ![CSR.MTINST] = Value(i),
                                 ![CSR.MCAUSE] = q.cause,
                                 ![CSR.MSTATUS] = low + Bits(mstatus, 3, 3) * 128]
    IN  [r \in DOMAIN c.csr |->
            CASE r \in {CSR.MEPC, CSR.MTINST, CSR.MCAUSE, CSR.MSTATUS} /\ q.irq_start ->
                    trapped[r]
              [] r = CSR.MSTATUS /\ ~q.irq_start /\ q.irq_stop ->
                    low + Bits(mstatus, 7, 7) * 8
              [] r = CSR.MIP /\ q.irq_start /\ q.external ->
                    BitOr(csr_din, 2048)
              [] r = CSR.MIP /\ ~(q.irq_start /\ q.external) /\ written = r ->
                    BitOr(BitAnd(csr_din, BitNot(2176)), BitAnd(c.csr[r], 2176))
              [] OTHER -> IF written = r THEN csr_din ELSE c.csr[r]]

\* Falling edge: the register file, the CSRs and the data memory.
FallOf(c, s) ==
    LET i == c.instruction
        stores(a) == \/ a = s.alu_res
                     \/ ~IsByte(i) /\ a = s.alu_res + 1
    IN  [c EXCEPT !.regs = IF s.rf_wr_en THEN [@ EXCEPT ![i.rd + 1] = s.rf_wr_data] ELSE @,
                  !.csr = CsrWrite(c, s.q, s.alu_res),
                  !.mem = IF ~s.dmem_wr THEN @
                          ELSE [b \in DOMAIN @ |->
                                  IF ~stores(b - 1) THEN @[b]
                                  ELSE IF b - 1 = s.alu_res THEN s.wr_data % 256
                                  ELSE s.wr_data \div 256]]
Fall(c, pins) == FallOf(c, Signals(c, pins))

\* A reset of two edges; the memories and the fetched instruction stay.
Reset(c) ==
    [c EXCEPT !.pc = 0, !.imem_req = FALSE, !.irq_started = FALSE,
              !.regs = [r \in 1 .. 32 |-> 0],
              !.csr = [r \in ToSet(CSR_ADDR) |-> IF r = CSR.MTVEC THEN TRAP_BASE_ADDRESS ELSE 0]]

\* Loading a file overwrites the beginning of the instruction memory.
boot_load(c, file) ==
    [c EXCEPT !.imem = file \o SubSeq(@, Len(file) + 1, Len(@))]

\* Each word of the data memory holds its own number, high byte first.
Prefilled == [b \in 1 .. DMEM_DEPTH |->
                IF b % 2 = 1 THEN ((b - 1) \div 2) \div 256 ELSE ((b - 1) \div 2) % 256]

PowerOn == Reset([pc |-> 0, imem_req |-> FALSE, irq_started |-> FALSE, instruction |-> Zero,
                  regs |-> << >>, csr |-> << >>, imem |-> << >>, mem |-> Prefilled])
=============================================================================
