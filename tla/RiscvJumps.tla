----------------------------- MODULE RiscvJumps -----------------------------
(***************************************************************************)
(* The stimuli of the RISC-V testbench that jump: JAL and the branches,    *)
(* forward and backward (generator.cpp).  A generator predicts the program *)
(* counter of each command and ends a phase before the jumps would leave   *)
(* the instruction memory; g.pc and g.max_jump are its locals.             *)
(***************************************************************************)
EXTENDS RiscvGenerator

LIMIT(t) == INSTRUCTIONS_LIMIT(t) * 4

\* The dummy stores a jump goes over.
Fill(n) == Repeat(Dummy, n)
AtLeast(n, x) == IF x < n THEN n ELSE x

\* The jump the pattern at the next position would make: 0 after the last.
NextJump(t, i, max_jump) ==
    IF i < Len(t.picks) /\ max_jump > 0
    THEN AtLeast(8, ((Pattern(t, 20, t.picks[i + 1]) % max_jump) \div 4) * 4) ELSE 0

\* After a jump: end the phase when the next one does not fit.
SplitJump(t, g, i, pc) ==
    LET max_jump == LIMIT(t) - pc
        h == [g EXCEPT !.pc = pc, !.max_jump = max_jump]
    IN  IF max_jump <= 0 \/ pc + NextJump(t, i, max_jump) >= LIMIT(t)
        THEN [split(h) EXCEPT !.pc = 0, !.max_jump = LIMIT(t)] ELSE h

\* The commands in between are dummy stores, which must not be seen.
generate_jal_forward(t, g0) ==
    LET Step(g, x) ==
          LET p == t.picks[x[2]]
              offset == AtLeast(4, ((Pattern(t, 20, p) % g.max_jump) \div 4) * 4)
              addr == rand_addr(t, g, 0)
              h == push_ref_only(Push(g, <<seq_jal(x[1], offset \div 2)>>
                                         \o Fill(offset \div 4 - 1)
                                         \o <<set_stype(XLEN, 0, x[1], addr)>>),
                                 Store(addr, IF x[1] = 0 THEN 0 ELSE g.pc + 4))
          IN  IF x[1] = 0 /\ p >= 4 THEN g ELSE SplitJump(t, h, x[2], g.pc + offset + 4)
    IN  Loop(Step, [g0 EXCEPT !.pc = 0, !.max_jump = LIMIT(t)], Times(Regs(t), Index(t)))

\* Forward over the store to the tested jump, back to the store, out again.
generate_jal_backward(t, g0) ==
    LET Step(g, x) ==
          LET p == t.picks[x[2]]
              offset == AtLeast(8, ((Pattern(t, 20, p) % g.max_jump) \div 4) * 4)
              addr == rand_addr(t, g, 0)
              pc == g.pc + offset + 8
              h == push_ref_only(Push(g, <<seq_jal(0, (offset + 4) \div 2),
                                           set_stype(XLEN, 0, x[1], addr),
                                           seq_jal(0, offset \div 2)>>
                                         \o Fill(offset \div 4 - 2)
                                         \o <<seq_jal(x[1], -(offset \div 2))>>),
                                 Store(addr, IF x[1] = 0 THEN 0 ELSE pc))
          IN  IF x[1] = 0 /\ p >= 4 THEN g ELSE SplitJump(t, h, x[2], pc)
    IN  Loop(Step, [g0 EXCEPT !.pc = 0, !.max_jump = LIMIT(t)], Times(Regs(t), Index(t)))

-----------------------------------------------------------------------------
(* Branches: rs2 is set from rs1 by an immediate *)

Pairs(t) == Times(Regs(t), Regs(t))

\* The immediate that keeps the branch from being taken; << >> for a case
\* that is skipped.
NoJumpImm(t, g, r1, r2, p) ==
    CASE t.arg = "BEQ" -> IF r1 = r2 \/ (r2 = 0 /\ p = 0) THEN << >>
                          ELSE <<rand_nonzero(t, 4095)>>
      [] t.arg = "BNE" -> IF r2 = 0 /\ p # 0 THEN << >> ELSE <<0>>
      [] t.arg = "BLT" -> IF p < 0 \/ (r2 = 0 /\ p = 0) THEN << >>
                          ELSE <<BitOr(rand(t, g, 1), 2048)>>
      [] t.arg = "BGE" -> IF r1 = r2 \/ r2 = 0 \/ p <= 0 THEN << >>
                          ELSE <<rand_nonzero(t, 2047)>>
      [] t.arg = "BLTU" -> IF r1 = 0 \/ p >= 0 THEN << >> ELSE <<BitOr(rand(t, g, 1), 2048)>>
      [] t.arg = "BGEU" -> IF r1 = r2 \/ r2 = 0 \/ p <= 0 THEN << >>
                           ELSE <<rand_nonzero(t, 2047)>>

generate_btype_no_jump(t, g0) ==
    LET Step(g, x) ==
          LET r1 == x[1]
              r2 == x[2]
              p == sign_extend(Pattern(t, XLEN, t.picks[x[3]]), XLEN)
              imm == NoJumpImm(t, g, r1, r2, p)
              addr == rand_addr(t, g, 0)
              rs1 == IF r1 = 0 THEN 0
                     ELSE IF r1 = r2 THEN p + sign_extend(imm[1], 12) ELSE p
          IN  IF ((r1 = 0 \/ r2 = 0) /\ t.picks[x[3]] >= 4) \/ imm = << >> THEN g
              ELSE push_ref(t, Push(g, <<seq_lui(r1, (p - sign_extend(p, 12)) \div 2^12),
                                         seq_addi(r1, r1, p), seq_addi(r2, r1, imm[1]),
                                         set_btype(t.arg, r1, r2, p),
                                         set_stype(XLEN, 0, r1, addr)>>), Store(addr, rs1))
    IN  Loop(Step, g0, Times(Pairs(t), Index(t)))

\* Whether the branch is expected to be taken.
Taken(b, rs1, rs2) ==
    CASE b = "BEQ" -> rs1 = rs2
      [] b = "BNE" -> rs1 # rs2
      [] b = "BLT" -> rs1 < rs2
      [] b = "BGE" -> rs1 >= rs2
      [] b = "BLTU" -> UnsignedLess(rs1, rs2)
      [] b = "BGEU" -> ~UnsignedLess(rs1, rs2)

\* The registers after value was put in r1 and r1 + imm in r2.
Operands(r1, r2, value, imm) ==
    LET rs1 == IF r1 = 0 THEN 0 ELSE value
        rs2 == IF r2 = 0 THEN 0 ELSE rs1 + sign_extend(imm, 12)
    IN  IF r1 # 0 /\ r1 = r2 THEN <<rs2, rs2>> ELSE <<rs1, rs2>>

\* The end of an iteration: the branches look at the pattern just used.
SplitBranch(t, g, i, offset, const_offset, pc, pc0) ==
    LET max_jump == g.max_jump - (offset + const_offset)
        p12 == Pattern(t, 12, t.picks[i])
        next == IF i < Len(t.picks) /\ max_jump > 0
                THEN AtLeast(4, (((p12 % max_jump) % 2048) \div 4) * 4) ELSE 0
        h == [g EXCEPT !.pc = pc, !.max_jump = max_jump]
    IN  IF max_jump <= 0 \/ pc + next >= LIMIT(t)
        THEN [split(h) EXCEPT !.pc = pc0, !.max_jump = LIMIT(t) - const_offset] ELSE h

Modes == Span(-1, 1)

generate_btype_forward(t, g0) ==
    LET Step(g, x) ==
          LET r1 == x[1]
              r2 == x[2]
              p == t.picks[x[4]]
              p12 == Pattern(t, 12, p)
              p20 == Pattern(t, LUI_BITS, p)
              jump == AtLeast(4, (((p12 % g.max_jump) % 2048) \div 4) * 4)
              imm == x[3] * (rand(t, g, 0) % 4095)
              rs == Operands(r1, r2, get_lui_base_imm_value(p20, p12), imm)
              offset == IF Taken(t.arg, rs[1], rs[2]) THEN jump ELSE 4
              addr == rand_addr(t, g, 1)
              h == push_ref_only(Push(g, <<seq_lui(r1, p20), seq_addi(r1, r1, p12),
                                           seq_addi(r2, r1, imm),
                                           set_btype(t.arg, r1, r2, jump \div 2)>>
                                         \o Fill(offset \div 4 - 1)
                                         \o <<set_stype(XLEN, 0, r1, addr)>>),
                                 Store(addr, rs[1]))
          IN  IF (r1 = 0 \/ r2 = 0) /\ p >= 4 THEN g
              ELSE SplitBranch(t, h, x[4], offset, 16, g.pc + offset + 16, 12)
    IN  Loop(Step, [g0 EXCEPT !.pc = 12, !.max_jump = LIMIT(t) - 16],
                 Times(Times(Pairs(t), Modes), Index(t)))

\* rs1 is the predicted pc of the branch: it counts the whole jump also when
\* the branch is not taken and the dummies are left out.
generate_btype_backward(t, g0) ==
    LET Step(g, x) ==
          LET r1 == x[1]
              r2 == x[2]
              p == t.picks[x[4]]
              jump == AtLeast(8, (((Pattern(t, 12, p) % g.max_jump) % 2048) \div 4) * 4)
              pc == g.pc + (jump - 8) + 24
              lui == (pc % 2^(LUI_BITS + 12)) \div 2^12
              imm == x[3] * (rand(t, g, 0) % 4095)
              rs == Operands(r1, r2, get_lui_base_imm_value(lui, pc), imm)
              taken == Taken(t.arg, rs[1], rs[2])
              offset == IF taken THEN jump ELSE 8
              addr == rand_addr(t, g, 1)
              h == Push(g, <<seq_lui(r1, lui), seq_addi(r1, r1, pc), seq_addi(r2, r1, imm),
                             seq_jal(0, (offset + 4) \div 2), set_stype(XLEN, 0, r1, addr),
                             seq_jal(0, offset \div 2)>>
                           \o Fill(offset \div 4 - 2)
                           \o <<set_btype(t.arg, r1, r2, -(offset \div 2))>>)
              s == IF taken THEN push_ref_only(h, Store(addr, rs[1])) ELSE h
          IN  IF (r1 = 0 \/ r2 = 0) /\ p >= 4 THEN g
              ELSE SplitBranch(t, s, x[4], offset, 24, pc + 4, 0)
    IN  Loop(Step, [g0 EXCEPT !.pc = 0, !.max_jump = LIMIT(t) - 24],
                 Times(Times(Pairs(t), Modes), Index(t)))

=============================================================================
