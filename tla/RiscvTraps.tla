----------------------------- MODULE RiscvTraps -----------------------------
(***************************************************************************)
(* The stimuli of the RISC-V testbench that trap (generator.cpp): EBREAK,  *)
(* an illegal instruction and the external interrupt.                      *)
(***************************************************************************)
EXTENDS RiscvJumps

IALIGN == 4

\* Reads of a register of the trap: into A0, and a store of all its bits.
ReadCsr(t, g, csr, addr, data) ==
    push_ref(t, Push(g, <<set_csr("CSRRW", REGFILE_A0, 0, csr),
                          set_stype(XLEN, 0, REGFILE_A0, addr)>>), Store(addr, data))

\* The trap vector: as reset, with the vectored mode on, or an address in A0.
SetVector(i) ==
    CASE i = 0 -> << >>
      [] i = 1 -> <<set_csr("CSRRSI", 0, 1, CSR.MTVEC)>>
      [] i = 2 -> <<set_csr("CSRRW", 0, REGFILE_A0, CSR.MTVEC)>>
VectorAddr(i, imm) == (IF i = 2 THEN imm ELSE TRAP_BASE_ADDRESS) \div IALIGN

\* 1 + rand() & 0xFE
ReturnImm(t, g, k) == BitAnd(1 + rand(t, g, k), 254)

\* One phase of a synchronous trap: the command, what runs after the return,
\* a jump over the handler to the end, and the handler at its address.
TrapPhase(t, g, i, cmd, cause) ==
    LET imm == 100 + (rand(t, g, 0) % ((t.depth \div WORD_LEN) * WORD_LEN))
        ret_imm == ReturnImm(t, g, 1)
        ret_addr == rand(t, g, 2) % 2048
        trap_addr == VectorAddr(i, imm) - (IF i = 0 THEN 0 ELSE 1)
        top == Push(g, <<seq_addi(REGFILE_A0, 0, imm)>> \o SetVector(i)
                       \o <<cmd, seq_addi(REGFILE_A0, 0, ret_imm),
                            set_stype(8, 0, REGFILE_A0, ret_addr),
                            seq_jal(REGFILE_A0, (trap_addr - 5 + 7 + 1) * 2)>>
                       \o Repeat(Nop, trap_addr - 5))
        entered == push_ref(t, Push(top, <<set_stype(8, 0, REGFILE_A0, imm)>>),
                            Store(imm, imm % 256))
        told == ReadCsr(t, ReadCsr(t, entered, CSR.MCAUSE, imm, cause),
                        CSR.MTINST, imm, Value(cmd))
    IN  split(push_ref(t, Push(told, <<seq_mret, set_stype(8, 0, REGFILE_A0, rand(t, g, 3))>>),
                       Store(ret_addr, ret_imm)))

generate_trap_ebreak(t, g0) ==
    LET Step(g, x) == TrapPhase(t, g, x[1], seq_ebreak, 3)
    IN  Loop(Step, g0, Span(0, 2))

generate_trap_illegal_cmd(t, g0) ==
    LET Step(g, x) == TrapPhase(t, g, x[1], Illegal, 2)
    IN  Loop(Step, g0, Span(0, 2))

-----------------------------------------------------------------------------
(* The external interrupt, which the driver raises with the data of a load *)

sequence_enable_interrupts ==
    <<seq_addi(REGFILE_A0, 0, 2047), seq_addi(REGFILE_A0, REGFILE_A0, 1),
      set_csr("CSRRS", 0, REGFILE_A0, CSR.MIE)>>

\* A load from the base address in A1 that sets the interrupt pin; seen is the
\* address at which the bus is expected to show it.
LoadSetsIrq(t, g, rd, imm, addr, seen, data, irq) ==
    push_drv(push_ref_only(Push(g, <<set_itype_load(XLEN, TRUE, rd, REGFILE_A1, imm)>>),
                           Load(seen, data)), addr, data, irq)

generate_trap_irq_external_disabled(t, g0) ==
    LET Step(g, x) ==
          LET base == rand_lui_base(t, g, 0)
              on == (rand(t, g, 1) \div WORD_LEN) * WORD_LEN
              off == (rand(t, g, 2) \div WORD_LEN) * WORD_LEN
              imm == 100 + (rand(t, g, 3) % ((t.depth \div WORD_LEN) * WORD_LEN))
              onAddr == LuiBase(base) + sign_extend(on, 12)
              offAddr == LuiBase(base) + sign_extend(off, 12)
              top == Push(g, (IF x[1] = 0 THEN << >> ELSE sequence_enable_interrupts)
                             \o <<seq_lui(REGFILE_A1, base)>>)
              raised == LoadSetsIrq(t, top, REGFILE_A0, on, onAddr, onAddr, rand(t, g, 4), 1)
              stored == push_ref(t, Push(raised, <<seq_addi(REGFILE_A0, 0, imm),
                                                   set_stype(8, 0, REGFILE_A0, imm)>>),
                                 Store(imm, imm % 256))
          IN  LoadSetsIrq(t, ReadCsr(t, stored, CSR.MCAUSE, imm, 0),
                          REGFILE_A0, off, offAddr, offAddr, rand(t, g, 5), 0)
    IN  split(Loop(Step, g0, Span(0, 1)))

\* The interrupt is taken by the load itself: the bus shows the address of the
\* handler with the data of the load.
IrqTop(t, g, i, base, imm, trap_addr) ==
    LET on == (rand(t, g, 1) \div WORD_LEN) * WORD_LEN
        nops == trap_addr - (IF i = 0 THEN 0 ELSE 1)
        top == Push(g, <<seq_lui(REGFILE_A1, base)>> \o sequence_enable_interrupts
                       \o <<seq_addi(REGFILE_A0, 0, 8),
                            set_csr("CSRRS", 0, REGFILE_A0, CSR.MSTATUS),
                            seq_addi(REGFILE_A0, 0, imm)>> \o SetVector(i))
        raised == LoadSetsIrq(t, top, REGFILE_A1 + 1, on, LuiBase(base) + sign_extend(on, 12),
                              trap_addr * IALIGN, rand(t, g, 2), 1)
    IN  Push(raised, <<seq_addi(REGFILE_A0, 0, ReturnImm(t, g, 3)),
                       set_stype(8, 0, REGFILE_A0, rand(t, g, 4) % 2048),
                       seq_jal(REGFILE_A0, (nops - 7 + 8 + 1) * 2)>> \o Repeat(Nop, nops - 7))

\* The handler: the cause, the instruction that was interrupted, the load that
\* lowers the pin, and the return.
generate_trap_irq_external_enabled(t, g0) ==
    LET Step(g, x) ==
          LET i == x[1]
              vectored == IF i = 1 THEN 1 ELSE 0
              base == rand_lui_base(t, g, 0)
              imm == 100 + ((rand(t, g, 5) % (t.depth \div WORD_LEN)) * WORD_LEN) + vectored
              top == IrqTop(t, g, i, base, imm, VectorAddr(i, imm) + 11 * vectored)
              load == set_itype_load(XLEN, TRUE, REGFILE_A1 + 1, REGFILE_A1,
                                     (rand(t, g, 1) \div WORD_LEN) * WORD_LEN)
              off == (rand(t, g, 6) \div WORD_LEN) * WORD_LEN
              offAddr == LuiBase(base) + sign_extend(off, 12)
              entered == push_ref(t, Push(top, <<set_stype(8, 0, REGFILE_A0, imm)>>),
                                  Store(imm, imm % 256))
              told == ReadCsr(t, ReadCsr(t, entered, CSR.MCAUSE, imm, IRQ_EXTERNAL),
                              CSR.MTINST, imm, Value(load))
              lowered == LoadSetsIrq(t, told, REGFILE_A1 + 1, off, offAddr, offAddr,
                                     rand(t, g, 7), 0)
          IN  split(push_ref(t, Push(lowered, <<seq_mret, set_stype(8, 0, REGFILE_A0,
                                                                    rand(t, g, 8))>>),
                             Store(rand(t, g, 4) % 2048, ReturnImm(t, g, 3))))
    IN  Loop(Step, g0, Span(0, 2))

=============================================================================
