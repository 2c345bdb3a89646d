----------------------------- MODULE RiscvTrap -----------------------------
(***************************************************************************)
(* Traps of the single cycle RISC-V core: RISCV_SingleCycle/csr.sv and the *)
(* program counter of riscv_core.sv, in the build of risc_pkg.sv (ZICSR    *)
(* without CLINT_EX_IRQ: one external interrupt line).                     *)
(*                                                                         *)
(* An instruction takes one clock.  The CSRs are written at the falling    *)
(* edge (Fall), the program counter at the rising edge that follows        *)
(* (Rise); everything between is combinational and is evaluated anew       *)
(* before each edge.                                                       *)
(***************************************************************************)
EXTENDS RiscvAlu

CONSTANTS Programs,     \* functions from addresses to instructions
          TrapBase,     \* TRAP_BASE_ADDRESS
          AnyTime,      \* the interrupt line may change in either half of a clock
          None, Broken

\* mstatus.MIE and mstatus.MPIE, and mie.MEIE.
MIE == 3
MPIE == 7
MEIE == 11

Zero == [op |-> "ZERO", alu |-> "ADD", csr |-> "NONE", vals |-> {{}}]

\* An instruction: what it is and what the ALU does for it; for a CSR
\* instruction the register it writes and what its operand may be; for a jump
\* or a branch the addresses where it may go on.  The operation of a CSR
\* instruction is that of the ALU: to set bits is OR, to clear them AND.  A
\* CSR instruction that writes nothing, or a register no trap depends on, is
\* an ALU instruction.  An instruction of 16 bits is always illegal.
Instructions ==
    {i \in [op   : {"ALU", "JUMP", "ECALL", "EBREAK", "ILLEGAL", "ILLEGAL16", "MRET", "CSR",
                    "ZERO"},
            alu  : AluOps,
            csr  : {"NONE", "MSTATUS", "MIE", "MTVEC", "MEPC"},
            vals : (SUBSET Word) \ {{}}] :
        /\ i.op \in {"CSR", "ILLEGAL"} => i.alu \in {"ADD", "OR", "AND"}
        /\ i.op \notin {"ALU", "CSR", "ILLEGAL"} => i.alu = "ADD"}

\* What a trap owes to the program: where it goes on, and mstatus.MIE.
Frames == [epc : Word, mie : BOOLEAN]

ASSUME TrapAssumption ==
    /\ TrapBase \in Word
    /\ AnyTime \in BOOLEAN
    /\ \A p \in Programs : /\ DOMAIN p \subseteq Word
                           /\ \A a \in DOMAIN p : p[a] \in Instructions
    /\ None \notin Frames /\ Broken \notin Frames /\ None # Broken

VARIABLES prog, pc, imem_req,
          irq_started,  \* irq_en at the last rising edge
          mstatus, mie, mtvec, mepc,
          irq,          \* the interrupt line
          clk,          \* the half of the clock: high until Fall
          saved,        \* the CSRs of a trap were written at the last Fall
          frame         \* what the trap in progress owes to the program

core == <<prog, pc, imem_req, irq_started, mstatus, mie, mtvec, mepc>>
vars == <<core, irq, clk, saved, frame>>

\* The instruction memory holds zeros beyond the program, and while nothing is
\* requested its latch holds the zero that stopped the core.
instruction == IF imem_req /\ pc \in DOMAIN prog THEN prog[pc] ELSE Zero

irq_stop == instruction.op = "MRET"
irq_mmode_en == ~irq_stop /\ (MIE \in mstatus \/ MPIE \in mstatus)
irq_external == irq_mmode_en /\ MEIE \in mie /\ irq
exception == instruction.op \in {"ECALL", "EBREAK", "ILLEGAL", "ILLEGAL16"}
irq_en == irq_external \/ exception
irq_start == irq_en /\ ~irq_started

\* Four times the code of an external interrupt in mcause, in vectored mode.
offset == IF irq_external /\ 0 \in mtvec THEN ToWord(44) ELSE {}

csr_val == CASE instruction.csr = "MSTATUS" -> mstatus
             [] instruction.csr = "MIE"     -> mie
             [] instruction.csr = "MTVEC"   -> mtvec
             [] instruction.csr = "MEPC"    -> mepc
             [] instruction.csr = "NONE"    -> {}

\* The operands of the ALU for a return, for a trap and for a CSR instruction
\* with the operand rs.  The address of a jump is rs itself.
alu_a(rs) == IF irq_stop THEN mepc
             ELSE IF irq_start THEN mtvec \ {0, 1}
             ELSE IF instruction.op = "CSR" /\ instruction.alu = "AND" THEN BitNot(rs)
             ELSE rs
alu_b == IF irq_stop THEN ToWord(4)
         ELSE IF irq_start THEN offset
         ELSE IF instruction.op = "CSR" /\ instruction.alu # "ADD" THEN csr_val
         ELSE {}

\* The ALU works on them with the operation of the instruction, a trapped one
\* included.  What it yields is written to a CSR or is the next address.
csr_din(rs) == alu_res(instruction.alu, alu_a(rs), alu_b)

CsrWrite(csr) == instruction.op = "CSR" /\ instruction.csr = csr

\* mstatus with the enable moved from one of MIE and MPIE to the other, and
\* the first one cleared.
Moved(from, to) == (mstatus \ {MIE, MPIE}) \cup (IF from \in mstatus THEN {to} ELSE {})

MstatusWrite(rs) ==
    mstatus' = IF irq_start THEN Moved(MIE, MPIE)
               ELSE IF irq_stop THEN Moved(MPIE, MIE)
               ELSE IF CsrWrite("MSTATUS") THEN csr_din(rs)
               ELSE mstatus

\* Mutant: mepc follows the program counter on a return, too.
MepcWriteStop(rs) == mepc' = IF irq_start \/ irq_stop THEN pc
                             ELSE IF CsrWrite("MEPC") THEN csr_din(rs)
                             ELSE mepc

MepcWrite(rs) == mepc' = IF irq_start THEN pc
                         ELSE IF CsrWrite("MEPC") THEN csr_din(rs)
                         ELSE mepc

\* These two do not look at irq_start: when their instruction is interrupted
\* they are written with the address of the trap.
MieWrite(rs) == mie' = IF CsrWrite("MIE") THEN csr_din(rs) ELSE mie
MtvecWrite(rs) == mtvec' = IF CsrWrite("MTVEC") THEN csr_din(rs) ELSE mtvec

\* What a CSR instruction owes to its register (the privileged specification):
\* its operand, or the old bits with those of the operand set or cleared.
Written(old, rs) == CASE instruction.alu = "ADD" -> rs
                      [] instruction.alu = "OR"  -> old \cup rs
                      [] instruction.alu = "AND" -> old \ rs

\* What the trap in progress owes to the program, once it returns: to go on
\* behind the instruction that was trapped, with interrupts enabled as before,
\* unless the handler says otherwise by writing mepc or mstatus.MPIE.  A trap
\* within a trap breaks that, there is one mepc and one MPIE.
Owe(rs) ==
    IF irq_start THEN IF frame = None THEN [epc |-> pc, mie |-> MIE \in mstatus] ELSE Broken
    ELSE IF frame \notin Frames THEN frame
    ELSE [epc |-> IF CsrWrite("MEPC") THEN Written(frame.epc, rs) ELSE frame.epc,
          mie |-> IF CsrWrite("MSTATUS")
                  THEN MPIE \in Written(IF frame.mie THEN {MPIE} ELSE {}, rs)
                  ELSE frame.mie]

Fall == /\ clk = "high" /\ clk' = "low"
        /\ \E rs \in instruction.vals :
              /\ MstatusWrite(rs) /\ MepcWrite(rs) /\ MieWrite(rs) /\ MtvecWrite(rs)
              /\ frame' = Owe(rs)
        /\ saved' = irq_start
        /\ UNCHANGED <<prog, pc, imem_req, irq_started, irq>>

width == IF instruction.op = "ILLEGAL16" THEN ToWord(2) ELSE ToWord(4)
pc_jump == instruction.op = "JUMP" \/ irq_start \/ irq_stop

\* Mutant: the lowest bit of the address is not cleared.
next_pcOdd(rs) == IF pc_jump THEN csr_din(rs) ELSE Add(pc, width)

next_pc(rs) == IF pc_jump THEN csr_din(rs) \ {0} ELSE Add(pc, width)

\* Mutant: the request stays acknowledged until the core is reset.
StartedSticky == irq_started' = (imem_req /\ (irq_en \/ irq_started))

StartedNext == irq_started' = (imem_req /\ irq_en)

\* A trap that is entered without having been saved, or saved without being
\* entered, breaks the frame; a return ends it.
Settle == IF irq_stop THEN None
          ELSE IF irq_start # saved THEN Broken
          ELSE frame

Rise == /\ clk = "low" /\ clk' = "high"
        /\ imem_req' = (pc = {} \/ instruction # Zero)
        /\ \E rs \in instruction.vals : pc' = IF imem_req THEN next_pc(rs) ELSE pc
        /\ StartedNext
        /\ frame' = Settle
        /\ saved' = FALSE
        /\ UNCHANGED <<prog, mstatus, mie, mtvec, mepc, irq>>

\* The device drives its line after the rising edge (driver.cpp) or any time.
Device == /\ clk = "high" \/ AnyTime
          /\ irq' = ~irq
          /\ UNCHANGED <<core, clk, saved, frame>>

Init == /\ prog \in Programs
        /\ pc = {} /\ imem_req = FALSE /\ irq_started = FALSE
        /\ mstatus = {} /\ mie = {} /\ mepc = {} /\ mtvec = TrapBase
        /\ irq \in BOOLEAN
        /\ clk = "high"
        /\ saved = FALSE /\ frame = None

Next == Fall \/ Rise \/ Device

Spec == Init /\ [][Next]_vars

\* The clock does not stop.
FairSpec == Spec /\ WF_vars(Fall) /\ WF_vars(Rise)
-----------------------------------------------------------------------------
(* Properties *)

\* The registers hold words, and the program counter is even, so that no
\* instruction is ever found misaligned (csr.sv asks for its two lowest bits).
TypeOK == /\ {pc, mstatus, mie, mtvec, mepc} \subseteq Word
          /\ 0 \notin pc
          /\ {imem_req, irq_started, irq, saved} \subseteq BOOLEAN
          /\ clk \in {"high", "low"}
          /\ frame \in Frames \cup {None, Broken}

\* A trap that was saved and not disturbed by another one returns to the
\* instruction behind the one it trapped, and leaves interrupts enabled as they
\* were, except where the handler itself has written mepc or mstatus.MPIE: then
\* behind what it wrote, and enabled as it wrote.  Neither the interrupt line
\* nor any other CSR instruction of the handler makes a difference.
TrapReturns ==
    [][clk = "low" /\ clk' = "high" /\ irq_stop /\ frame \in Frames
       => /\ pc' = Add(frame.epc, ToWord(4)) \ {0}
          /\ (MIE \in mstatus) = frame.mie]_vars

\* An enabled interrupt that stays requested while the core runs is not
\* forgotten: a trap is begun, or it is withdrawn, or disabled.
Enabled == MEIE \in mie /\ (MIE \in mstatus \/ MPIE \in mstatus)
IrqTaken == irq /\ Enabled /\ imem_req ~> frame # None \/ ~irq \/ ~Enabled \/ ~imem_req

\* csr.sv on mtvec: "jump to base+offset".  A trap is entered where mtvec says,
\* whatever instruction it interrupts.
EntryAtVector ==
    [][clk = "low" /\ clk' = "high" /\ imem_req /\ irq_start
       => pc' = Add(mtvec \ {0, 1}, offset)]_vars

\* csr.sv: "on irq_start mcause will be also written with this mcause_data".
\* A trap that is entered has had its CSRs written.
EntrySaved == [][clk = "low" /\ clk' = "high" /\ imem_req /\ irq_start => saved]_vars
=============================================================================
