--------------------------- MODULE RiscvGenerator ---------------------------
(***************************************************************************)
(* The stimuli of the RISC-V testbench, generator.cpp: each test is a fold *)
(* that pushes instructions to the sequencer, expected bus transactions to *)
(* the scoreboard and bus stimuli to the driver.                           *)
(*                                                                         *)
(* A test is a record: the generator with its argument, and the bounds of  *)
(* its loops.  depth is the instruction memory in words, regs is REGS_NUM, *)
(* max_reg is MAX_REG, picks are the positions of the bit patterns the     *)
(* loops visit, rands is what rand() returns: the value depends only on    *)
(* how many instructions have been pushed, which is as good as any.        *)
(***************************************************************************)
EXTENDS RiscvCommon, RiscvIsa, SequencesExt

LUI_BITS == XLEN - 12           \* the bits of a LUI immediate that reach a register
SEQUENCES_NUM == XLEN + 18

\* What a generator works on: the queues, and the locals that outlive an
\* iteration of its loops.
New == [sqr |-> << >>, split_num |-> 0, refs |-> << >>, drvs |-> << >>,
        pc |-> 0, max_jump |-> 0, csr_values |-> << >>]

INSTRUCTIONS_LIMIT(t) == t.depth - 20

Push(g, cmds) == [g EXCEPT !.sqr = @ \o cmds]

split(g) == [g EXCEPT !.sqr = Append(@, Zero), !.split_num = @ + 1]

\* Transactions: the fields are cut to the width of the bus.
Expect(wr, addr, wr_data, rd_data) ==
    [wr |-> wr, addr |-> W(addr), wr_data |-> W(wr_data), rd_data |-> W(rd_data)]
Store(addr, data) == Expect(1, addr, data, 0)
Load(addr, data) == Expect(0, addr, 0, data)

\* push_ref with no_zero_cmd: the phase may not end here.
push_ref_only(g, r) ==
    [g EXCEPT !.refs = Append(@, [wr |-> r.wr, addr |-> r.addr, wr_data |-> r.wr_data,
                                  rd_data |-> r.rd_data, test_id |-> g.split_num])]

\* Mutant: a phase that is as long as the limit is not split.
push_refLate(t, g, r) ==
    LET h == push_ref_only(g, r)
    IN  IF Len(h.sqr) \div (2 * INSTRUCTIONS_LIMIT(t)) > h.split_num THEN split(h) ELSE h

\* Mutant: the phase is ended before the transaction is numbered.
push_refSplitFirst(t, g, r) ==
    push_ref_only(IF Len(g.sqr) \div INSTRUCTIONS_LIMIT(t) > g.split_num THEN split(g) ELSE g, r)

push_ref(t, g, r) ==
    LET h == push_ref_only(g, r)
    IN  IF Len(h.sqr) \div INSTRUCTIONS_LIMIT(t) > h.split_num THEN split(h) ELSE h

push_drv(g, addr, rd_data, irq) ==
    [g EXCEPT !.drvs = Append(@, [wr |-> 0, addr |-> W(addr), rd_data |-> W(rd_data),
                                  irq |-> irq, test_id |-> g.split_num])]

\* The k-th rand() of an iteration that begins with g.
rand(t, g, k) == t.rands[1 + ((Len(g.sqr) + k) % Len(t.rands))]

\* do r = rand() & mask while r is 0.
rand_nonzero(t, mask) ==
    LET r == SelectSeq(t.rands, LAMBDA x : BitAnd(x, mask) # 0) IN BitAnd(Head(r), mask)

\* Positive, and aligned to a word.
rand_addr(t, g, k) == ((rand(t, g, k) % 1792) \div WORD_LEN) * WORD_LEN

\* The entry of generate_bit_patterns at a position: high to low, alternating
\* bits, random values, and a walking one (an int: bit 31 makes it negative).
Pattern(t, bits_width, p) ==
    LET random == SEQUENCES_NUM - bits_width
    IN  CASE p \in {0, 2} -> 0
          [] p \in {1, 3} -> 2^bits_width - 1
          [] p = 4 -> 11184810 % 2^bits_width
          [] p = 5 -> 5592405 % 2^bits_width
          [] p = 6 -> 14408667 % 2^bits_width
          [] p = 7 -> 11974326 % 2^bits_width
          [] p >= 8 /\ p < random -> t.rands[1 + (p % Len(t.rands))] % 2^bits_width
          [] p >= 8 /\ p >= random ->
                IF p - random = XLEN - 1 THEN -(2^(p - random)) ELSE 2^(p - random)

LuiBase(imm) == (imm % 2^LUI_BITS) * 2^12

\* Mutant: the base of LUI has no sign.
get_lui_base_imm_valueFlat(lui_base_val, imm_val) ==
    LuiBase(lui_base_val) + sign_extend(imm_val, 12)

get_lui_base_imm_value(lui_base_val, imm_val) ==
    sign_extend(LuiBase(lui_base_val), XLEN) + sign_extend(imm_val, 12)

\* A base address outside of the data memory: 0xA0000 .. 0xFFFFF, scaled.
rand_lui_base(t, g, k) == 10 * 2^(LUI_BITS - 4) + (rand(t, g, k) % (6 * 2^(LUI_BITS - 4)))

-----------------------------------------------------------------------------
(* Loops: sequences of tuples in the order of the nested for statements *)

\* A loop folds its body over the sequence, one half before the other: TLC
\* evaluates lazily, and the test has it finish the first half.
Loop(Body(_, _), g0, s) ==
    LET RECURSIVE Part(_, _, _)
        Part(g, lo, hi) ==
            IF lo > hi THEN g
            ELSE IF lo = hi THEN Body(g, s[lo])
            ELSE LET h == Part(g, lo, (lo + hi) \div 2)
                 IN  IF h.split_num \in Nat THEN Part(h, (lo + hi) \div 2 + 1, hi) ELSE h
    IN  Part(g0, 1, Len(s))

Span(a, b) == [k \in 1 .. (b - a + 1) |-> <<a + k - 1>>]
Regs(t) == Span(0, t.regs - 1)
Index(t) == Span(1, Len(t.picks))
Times(s, u) == [k \in 1 .. (Len(s) * Len(u)) |->
                   s[1 + (k - 1) \div Len(u)] \o u[1 + ((k - 1) % Len(u))]]
Repeat(cmd, n) == [k \in 1 .. n |-> cmd]
Dummy == set_stype(XLEN, 0, 0, 0)
Nop == seq_addi(0, 0, 0)

-----------------------------------------------------------------------------
(* Stores and loads *)

generate_stype_acceptance(t, g0) ==
    LET Step(g, x) ==
          IF 2^x[1] > XLEN THEN g
          ELSE push_ref(t, Push(g, <<seq_lui(0, rand(t, g, 0)),
                                     set_stype(2^x[1], x[2], x[2], 0)>>), Store(0, 0))
    IN  Loop(Step, g0, Times(Span(3, 6), Span(0, t.max_reg - 1)))

generate_stype_imm_lui_imm(t, g0) ==
    LET Step(g, x) ==
          LET p == Pattern(t, XLEN, t.picks[x[1]])
          IN  push_ref(t, Push(g, <<seq_lui(REGFILE_A0, p \div 2^12),
                                    set_stype(t.bits, REGFILE_A0, 0, p)>>),
                       Store(LuiBase(p \div 2^12) + sign_extend(p, 12), 0))
    IN  Loop(Step, g0, Index(t))

\* The register of the base address is set once, before the loops: in the
\* phases after a split it holds the same by being reset to the same 0.
generate_stype_data(t, g0) ==
    LET Step(g, x) ==
          LET p == Pattern(t, XLEN, t.picks[x[2]])
              imm == (IF p < 0 THEN -((-p) \div WORD_LEN) ELSE p \div WORD_LEN) * WORD_LEN
              value == get_lui_base_imm_value(p \div 2^12, p)
          IN  IF x[1] = REGFILE_A0 THEN g
              ELSE push_ref(t, Push(g, <<seq_lui(x[1], p \div 2^12), seq_addi(x[1], x[1], p),
                                         set_stype(t.bits, REGFILE_A0, x[1], imm)>>),
                            Store(sign_extend(imm, 12), BitAnd(value, datamask(t.bits))))
    IN  Loop(Step, Push(g0, <<seq_lui(REGFILE_A0, 0)>>), Times(Span(1, t.regs - 1), Index(t)))

generate_itype_load_acceptance(t, g0) ==
    LET Step(g, x) ==
          IF 2^x[1] > XLEN THEN g
          ELSE push_ref(t, Push(g, <<seq_lui(0, rand(t, g, 0)), seq_addi(0, 0, rand(t, g, 1)),
                                     set_itype_load(2^x[1], FALSE, x[2], x[2], 0)>>),
                        Load(0, 0))
    IN  Loop(Step, g0, Times(Span(3, 6), Span(0, t.max_reg - 1)))

\* A load, then a store of what was loaded.  Within the data memory a load is
\* expected to read its own address.
generate_itype_load_address(t, g0) ==
    LET Step(g, x) ==
          LET p12 == Pattern(t, 12, t.picks[x[2]])
              p20 == Pattern(t, LUI_BITS, t.picks[x[2]])
              rd == IF x[1] < 31 THEN x[1] + 1 ELSE 0
              addr == W(LuiBase(p20) + sign_extend(p12, 12))
              rd_data == IF addr < DATA_MEMORY_DEPTH THEN BitAnd(addr, datamask(t.bits)) ELSE 0
              stored == IF rd = 0 THEN 0
                        ELSE IF t.unsigned THEN BitAnd(rd_data, datamask(t.bits))
                        ELSE sign_extend(BitAnd(rd_data, datamask(t.bits)), t.bits)
              h == push_ref_only(Push(g, <<seq_lui(x[1], p20),
                                           set_itype_load(t.bits, t.unsigned, rd, x[1], p12)>>),
                                 Load(addr, rd_data))
          IN  push_ref(t, Push(h, <<set_stype(t.bits, x[1], rd, p12)>>), Store(addr, stored))
    IN  Loop(Step, g0, Times(Span(1, t.regs - 1), Index(t)))

\* A load of what the driver puts on the bus, then a store of it.
generate_itype_load_data(t, g0) ==
    LET Step(g, x) ==
          LET p == Pattern(t, 12, t.picks[x[2]])
              base == rand_lui_base(t, g, 0)
              addr == LuiBase(base) + sign_extend(p, 12)
              data == BitAnd(rand(t, g, 3), datamask(t.bits))
              imm == (rand(t, g, 4) \div WORD_LEN) * WORD_LEN
              stored == IF t.unsigned THEN data ELSE sign_extend(data, t.bits)
              h == push_ref_only(
                     Push(g, <<seq_lui(REGFILE_A1, base), seq_lui(x[1], rand(t, g, 1)),
                               seq_addi(x[1], x[1], rand(t, g, 2)),
                               set_itype_load(t.bits, t.unsigned, x[1], REGFILE_A1, p)>>),
                     Load(addr, data))
          IN  IF x[1] \in {REGFILE_A0, REGFILE_A1} THEN g
              ELSE push_ref(t, Push(push_drv(h, addr, data, 0),
                                    <<seq_lui(REGFILE_A0, 0),
                                      set_stype(XLEN, REGFILE_A0, x[1], imm)>>),
                            Store(sign_extend(imm, 12), stored))
    IN  Loop(Step, g0, Times(Span(1, t.regs - 1), Index(t)))

-----------------------------------------------------------------------------
(* Arithmetic: the operands are longs, the result is cut by push_ref *)

\* What an instruction computes of two longs; a shift to the right of the
\* unsigned value is masked first.
AluResult(alu, a, b) ==
    CASE alu = "ADD" -> a + b
      [] alu = "SUB" -> a - b
      [] alu = "SLL" -> ShiftLeft(a, b)
      [] alu = "SRL" -> ShiftRight(a, b)
      [] alu = "SRA" -> a \div 2^b
      [] alu = "XOR" -> BitXor(a, b)
      [] alu = "AND" -> BitAnd(a, b)
      [] alu = "OR" -> BitOr(a, b)
      [] alu = "SLT" -> IF a < b THEN 1 ELSE 0
      [] alu = "SLTU" -> IF UnsignedLess(a, b) THEN 1 ELSE 0

generate_itype_arithmetic(t, g0) ==
    LET Step(g, x) ==
          LET sreg == x[1]
              dreg == x[2]
              lui == rand(t, g, 0)
              addi == rand(t, g, 1)
              imm == ItypeImm(t.arg, Pattern(t, 12, t.picks[x[3]]))
              a == IF sreg = 0 THEN 0 ELSE get_lui_base_imm_value(lui, addi)
              b == IF t.arg \in SHIFTS THEN imm ELSE sign_extend(imm, 12)
              addr == rand_addr(t, g, 2)
          IN  IF dreg = 0 /\ t.picks[x[3]] >= 4 THEN g
              ELSE push_ref(t, Push(g, <<seq_lui(sreg, lui), seq_addi(sreg, sreg, addi),
                                         set_itype_arithmetic(t.arg, dreg, sreg, imm),
                                         set_stype(XLEN, 0, dreg, addr)>>),
                            Store(addr, IF dreg = 0 THEN 0 ELSE AluResult(t.arg, a, b)))
    IN  Loop(Step, g0, Times(Times(Regs(t), Regs(t)), Index(t)))

generate_rtype(t, g0) ==
    LET Step(g, x) ==
          LET r1 == x[1]
              r2 == x[2]
              p == t.picks[x[3]]
              p12 == Pattern(t, 12, p)
              p20 == Pattern(t, LUI_BITS, p)
              rd == p % 32
              value == get_lui_base_imm_value(p20, p12)
              rs1 == IF r1 = 0 THEN 0 ELSE value
              rs2 == IF r2 = 0 THEN 0 ELSE value
              addr == rand_addr(t, g, 0)
          IN  IF (r1 = 0 \/ r2 = 0 \/ r1 = r2) /\ p >= 6 THEN g
              ELSE push_ref(t, Push(g, <<seq_lui(r1, p20), seq_addi(r1, r1, p12),
                                         seq_lui(r2, p20), seq_addi(r2, r2, p12),
                                         set_rtype(t.arg, rd, r1, r2),
                                         set_stype(XLEN, 0, rd, addr)>>),
                            Store(addr, IF rd = 0 THEN 0
                                        ELSE AluResult(t.arg, rs1, IF t.arg \in SHIFTS
                                                                   THEN rs2 % XLEN ELSE rs2)))
    IN  Loop(Step, g0, Times(Times(Regs(t), Regs(t)), Index(t)))

\* pc is counted in instructions, and begins again at the instruction limit.
generate_auipc(t, g0) ==
    LET Step(g, x) ==
          LET p == Pattern(t, LUI_BITS, t.picks[x[2]])
              addr == rand_addr(t, g, 0)
              data == IF x[1] = 0 THEN 0 ELSE g.pc * 4 + sign_extend(LuiBase(p), XLEN)
              pc == IF g.pc + 2 >= INSTRUCTIONS_LIMIT(t) THEN 0 ELSE g.pc + 2
          IN  IF x[1] = 0 /\ t.picks[x[2]] >= 4 THEN g
              ELSE [push_ref(t, Push(g, <<seq_auipc(x[1], p), set_stype(XLEN, 0, x[1], addr)>>),
                             Store(addr, data)) EXCEPT !.pc = pc]
    IN  Loop(Step, g0, Times(Regs(t), Index(t)))

-----------------------------------------------------------------------------
(* Control and status registers *)

CSRS == Span(1, Len(CSR_ADDR))

get_initial_csr_values ==
    [c \in 1 .. Len(CSR_ADDR) |-> IF CSR_ADDR[c] = CSR.MTVEC THEN TRAP_BASE_ADDRESS ELSE 0]

\* Reads only: the destination is every register.
generate_csr_acceptance(t, g0) ==
    LET cmds == <<"CSRRW", "CSRRWI", "CSRRS", "CSRRSI", "CSRRC", "CSRRCI">>
        Step(g, x) ==
          LET addr == rand_addr(t, g, 0)
              csr == CSR_ADDR[x[3]]
          IN  push_ref(t, Push(g, <<set_csr(cmds[x[1]], x[2], 0, csr),
                                    set_stype(XLEN, 0, x[2], addr)>>),
                       Store(addr, IF x[2] # 0 /\ csr = CSR.MTVEC THEN TRAP_BASE_ADDRESS ELSE 0))
    IN  Loop(Step, g0, Times(Times(Span(1, 6), Span(0, t.max_reg - 1)), CSRS))

\* What a command leaves in a register that held old.
CsrWritten(funct3, csr, old, rs, pattern) ==
    LET all == CASE rs = 0 -> old
                 [] rs # 0 /\ funct3 = "CSRRW" -> pattern
                 [] rs # 0 /\ funct3 = "CSRRS" -> BitOr(old, pattern)
                 [] rs # 0 /\ funct3 = "CSRRC" -> BitAnd(old, BitNot(pattern))
                 [] rs # 0 /\ funct3 = "CSRRWI" -> rs
                 [] rs # 0 /\ funct3 = "CSRRSI" -> BitOr(old, rs)
                 [] rs # 0 /\ funct3 = "CSRRCI" -> BitAnd(old, BitNot(rs))
    IN  IF csr = CSR.MIP    \* MTIP and MEIP are read only
        THEN BitOr(BitAnd(all, BitNot(2176)), BitAnd(old, 2176)) ELSE W(all)

\* A write with the read of the value before, then a read of the value after.
\* The expected values begin again with the reset between two phases.
generate_csr_read_write(t, g0) ==
    LET Step(g, x) ==
          LET rd == x[1]
              rs == x[2]
              csr == CSR_ADDR[x[3]]
              p == Pattern(t, XLEN, t.picks[x[4]])
              old == g.csr_values[x[3]]
              new == CsrWritten(t.arg, csr, old, rs, p)
              r == IF rd = 0 THEN REGFILE_A0 ELSE rd
              addr == rand_addr(t, g, 1)
              addr2 == rand_addr(t, g, 2)
              h == push_ref_only(
                     Push(g, <<seq_lui(rs, (p - sign_extend(p, 12)) \div 2^12),
                               seq_addi(rs, rs, p),
                               seq_addi(IF rd = rs THEN 0 ELSE rd, 0, rand(t, g, 0)),
                               set_csr(t.arg, rd, rs, csr), set_stype(XLEN, 0, rd, addr)>>),
                     Store(addr, IF rd = 0 THEN 0 ELSE old))
              s == push_ref(t, Push(h, <<set_csr("CSRRW", r, 0, csr),
                                         set_stype(XLEN, 0, r, addr2)>>), Store(addr2, new))
          IN  [s EXCEPT !.csr_values = IF s.split_num # g.split_num THEN get_initial_csr_values
                                       ELSE IF rs = 0 THEN @ ELSE [@ EXCEPT ![x[3]] = new]]
    IN  Loop(Step, [g0 EXCEPT !.csr_values = get_initial_csr_values],
                 Times(Times(Times(Regs(t), Regs(t)), CSRS), Index(t)))

=============================================================================
