-------------------------- MODULE RiscvTrapProofs --------------------------
(***************************************************************************)
(* For every program of RiscvTrap: the registers hold words, no address is *)
(* ever odd, and an undisturbed trap returns behind the instruction it     *)
(* trapped, or where its handler says by writing mepc and mstatus.         *)
(***************************************************************************)
EXTENDS RiscvTrap, TLAPS

-----------------------------------------------------------------------------
(* Words and the ALU *)

\* Whatever operation, the ALU makes words of words.
LEMMA AluTyped ==
    ASSUME NEW op \in AluOps, NEW a \in Word, NEW b \in Word
    PROVE  alu_res(op, a, b) \in Word
  <1>1. alu_res("ADD", a, b) \in Word /\ alu_res("SUB", a, b) \in Word
    BY DEF alu_res, Add, Subtract, Sum, Word
  <1>2. /\ alu_res("SLL", a, b) \in Word /\ alu_res("SRL", a, b) \in Word
        /\ alu_res("SRA", a, b) \in Word
    BY DEF alu_res, Word
  <1>3. /\ alu_res("XOR", a, b) \in Word /\ alu_res("AND", a, b) \in Word
        /\ alu_res("OR", a, b) \in Word
    BY DEF alu_res, Word
  <1>4. alu_res("SLT", a, b) \in Word /\ alu_res("SLTU", a, b) \in Word
    BY DEF alu_res, Word, Bits, XLEN
  <1> QED
    BY <1>1, <1>2, <1>3, <1>4 DEF AluOps

\* Nothing is carried where one operand is zero.
LEMMA AddZero ==
    ASSUME NEW a \in Word
    PROVE  Add(a, {}) = a
  <1>1. \A i \in Bits : ~Carry(a, {}, FALSE, i)
    BY DEF Carry
  <1>2. Add(a, {}) = {i \in Bits : i \in a}
    BY <1>1 DEF Add, Sum
  <1> QED
    BY <1>2 DEF Word

\* The sum of two even words is even.
LEMMA AddEven ==
    ASSUME NEW a \in Word, NEW b \in Word, 0 \notin a, 0 \notin b
    PROVE  0 \notin Add(a, b)
  <1>1. ~Carry(a, b, FALSE, 0)
    BY DEF Carry, Word, Bits, XLEN
  <1> QED
    BY <1>1 DEF Add, Sum

LEMMA ToWordTyped == \A n \in Nat : ToWord(n) \in Word
  BY DEF ToWord, Word, Bits, XLEN

LEMMA WidthEven == width \in Word /\ 0 \notin width
  <1>1. 2^0 = 1
    OBVIOUS
  <1>2. 0 \notin ToWord(2) /\ 0 \notin ToWord(4)
    BY <1>1 DEF ToWord
  <1> QED
    BY <1>2, ToWordTyped DEF width

-----------------------------------------------------------------------------
(* Types *)

TypeInv == prog \in Programs /\ TypeOK

LEMMA FetchTyped == TypeInv => instruction \in Instructions
  <1>1. Zero \in Instructions
    BY DEF Zero, Instructions, AluOps, Word
  <1> QED
    BY <1>1, TrapAssumption DEF TypeInv, TypeOK, instruction

LEMMA OperandTyped ==
    ASSUME TypeInv, NEW rs \in instruction.vals
    PROVE  /\ rs \in Word
           /\ csr_din(rs) \in Word
  <1>1. instruction \in Instructions
    BY FetchTyped
  <1>2. rs \in Word /\ instruction.alu \in AluOps
    BY <1>1 DEF Instructions
  <1>3. {mstatus, mie, mtvec, mepc} \subseteq Word
    BY DEF TypeInv, TypeOK
  <1>4. instruction.csr \in {"NONE", "MSTATUS", "MIE", "MTVEC", "MEPC"}
    BY <1>1 DEF Instructions
  <1>5. csr_val \in Word
    BY <1>3, <1>4 DEF csr_val, Word
  <1>6. offset \in Word
    BY ToWordTyped DEF offset, Word
  <1>7. alu_a(rs) \in Word
    BY <1>2, <1>3 DEF alu_a, BitNot, Word
  <1>8. alu_b \in Word
    BY <1>5, <1>6, ToWordTyped DEF alu_b, Word
  <1> QED
    BY <1>2, <1>7, <1>8, AluTyped DEF csr_din

LEMMA FallTyped == TypeInv /\ Fall => TypeInv'
  <1> SUFFICES ASSUME TypeInv, Fall PROVE TypeInv'
    OBVIOUS
  <1>1. PICK rs \in instruction.vals :
          /\ MstatusWrite(rs) /\ MepcWrite(rs) /\ MieWrite(rs) /\ MtvecWrite(rs)
          /\ frame' = Owe(rs)
    BY DEF Fall
  <1>2. rs \in Word /\ csr_din(rs) \in Word /\ instruction \in Instructions
    BY OperandTyped, FetchTyped
  <1>3. /\ pc \in Word /\ mstatus \in Word /\ mie \in Word /\ mtvec \in Word /\ mepc \in Word
        /\ frame \in Frames \cup {None, Broken}
    BY DEF TypeInv, TypeOK
  <1>4. mstatus' \in Word
    BY <1>1, <1>2, <1>3 DEF MstatusWrite, Moved, Word, Bits, XLEN, MIE, MPIE
  <1>5. mepc' \in Word
    BY <1>1, <1>2, <1>3 DEF MepcWrite
  <1>6. mie' \in Word /\ mtvec' \in Word
    BY <1>1, <1>2, <1>3 DEF MieWrite, MtvecWrite
  <1>7. frame' \in Frames \cup {None, Broken}
    <2>1. CASE irq_start
      BY <1>1, <1>3, <2>1 DEF Owe, Frames
    <2>2. CASE ~irq_start /\ frame \notin Frames
      BY <1>1, <1>3, <2>2 DEF Owe
    <2>3. CASE ~irq_start /\ frame \in Frames
      <3>1. CsrWrite("MEPC") => Written(frame.epc, rs) \in Word
        BY <1>2, <2>3 DEF CsrWrite, Written, Frames, Instructions, Word
      <3>2. frame.epc \in Word /\ frame.mie \in BOOLEAN
        BY <2>3 DEF Frames
      <3> DEFINE epc == IF CsrWrite("MEPC") THEN Written(frame.epc, rs) ELSE frame.epc
                 mpie == IF CsrWrite("MSTATUS")
                         THEN MPIE \in Written(IF frame.mie THEN {MPIE} ELSE {}, rs)
                         ELSE frame.mie
      <3>3. epc \in Word
        BY <3>1, <3>2
      <3>4. mpie \in BOOLEAN
        <4>1. CASE CsrWrite("MSTATUS")
          BY <4>1
        <4>2. CASE ~CsrWrite("MSTATUS")
          BY <4>2, <3>2
        <4> QED
          BY <4>1, <4>2
      <3>5. frame' = [epc |-> epc, mie |-> mpie]
        BY <1>1, <2>3 DEF Owe
      <3> HIDE DEF epc, mpie
      <3> QED
        BY <3>3, <3>4, <3>5 DEF Frames
    <2> QED
      BY <2>1, <2>2, <2>3
  <1>8. saved' \in BOOLEAN
    BY DEF Fall, irq_start, irq_en, irq_external, irq_mmode_en, exception
  <1>9. clk' = "low" /\ UNCHANGED <<prog, pc, imem_req, irq_started, irq>>
    BY DEF Fall
  <1> QED
    BY <1>4, <1>5, <1>6, <1>7, <1>8, <1>9 DEF TypeInv, TypeOK

LEMMA RiseTyped == TypeInv /\ Rise => TypeInv'
  <1> SUFFICES ASSUME TypeInv, Rise PROVE TypeInv'
    OBVIOUS
  <1>1. PICK rs \in instruction.vals : pc' = IF imem_req THEN next_pc(rs) ELSE pc
    BY DEF Rise
  <1>2. csr_din(rs) \in Word /\ pc \in Word /\ 0 \notin pc
    BY OperandTyped DEF TypeInv, TypeOK
  <1>3. Add(pc, width) \in Word /\ 0 \notin Add(pc, width)
    <2>1. Add(pc, width) \in Word
      BY DEF Add, Sum, Word
    <2> QED
      BY <1>2, <2>1, WidthEven, AddEven
  <1>4. pc' \in Word /\ 0 \notin pc'
    BY <1>1, <1>2, <1>3 DEF next_pc, Word
  <1>5. imem_req' \in BOOLEAN
    BY DEF Rise
  <1>6. irq_started' \in BOOLEAN
    BY DEF Rise, StartedNext, irq_en, irq_external, irq_mmode_en, exception
  <1>7. frame' \in Frames \cup {None, Broken}
    BY DEF TypeInv, TypeOK, Rise, Settle
  <1>8. /\ clk' = "high" /\ saved' = FALSE
        /\ UNCHANGED <<prog, mstatus, mie, mtvec, mepc, irq>>
    BY DEF Rise
  <1> QED
    BY <1>4, <1>5, <1>6, <1>7, <1>8 DEF TypeInv, TypeOK

LEMMA TypesHold == Spec => []TypeInv
  <1>1. Init => TypeInv
    <2> SUFFICES ASSUME Init PROVE TypeInv
      OBVIOUS
    <2>1. {} \in Word
      BY DEF Word
    <2>2. /\ pc = {} /\ mstatus = {} /\ mie = {} /\ mepc = {} /\ mtvec \in Word
          /\ prog \in Programs /\ clk = "high" /\ frame = None
      BY TrapAssumption DEF Init
    <2>3. /\ imem_req \in BOOLEAN /\ irq_started \in BOOLEAN
          /\ irq \in BOOLEAN /\ saved \in BOOLEAN
      BY DEF Init
    <2> QED
      BY <2>1, <2>2, <2>3 DEF TypeInv, TypeOK
  <1>2. TypeInv /\ [Next]_vars => TypeInv'
    <2> SUFFICES ASSUME TypeInv, [Next]_vars PROVE TypeInv'
      OBVIOUS
    <2>1. CASE Fall
      BY <2>1, FallTyped
    <2>2. CASE Rise
      BY <2>2, RiseTyped
    <2>3. CASE Device
      <3>1. irq' \in BOOLEAN /\ UNCHANGED <<core, clk, saved, frame>>
        BY <2>3 DEF Device
      <3> QED
        BY <3>1 DEF TypeInv, TypeOK, core
    <2>4. CASE UNCHANGED vars
      BY <2>4 DEF TypeInv, TypeOK, vars, core
    <2> QED
      BY <2>1, <2>2, <2>3, <2>4 DEF Next
  <1> QED
    BY <1>1, <1>2, PTL DEF Spec

\* TypeOK: whichever of its operations the ALU of riscv_core.sv applies to base
\* and offset of an interrupted instruction, and whatever CSR instructions and
\* jumps yield, registers hold words and the program counter stays even.
THEOREM TrapTypeCorrect == Spec => []TypeOK
  <1>1. TypeInv => TypeOK
    BY DEF TypeInv
  <1> QED
    BY <1>1, TypesHold, PTL

-----------------------------------------------------------------------------
(* The frame *)

\* While a frame is owed, mepc and mstatus.MPIE hold it; from the falling edge
\* of the return on, mstatus.MIE does.
FrameKept ==
    frame \in Frames => /\ frame.epc = mepc
                        /\ frame.mie = IF clk = "low" /\ irq_stop THEN MIE \in mstatus
                                                                  ELSE MPIE \in mstatus

\* A return is never interrupted: it masks the interrupt line and is no
\* exception.
LEMMA ReturnIsNotTrapped == irq_stop => ~irq_start
  BY DEF irq_stop, irq_start, irq_en, irq_external, irq_mmode_en, exception

\* What the edges and the device leave alone decides whether an instruction is
\* a return.
LEMMA StopKept == UNCHANGED <<prog, pc, imem_req>> => irq_stop' = irq_stop
  BY DEF irq_stop, instruction

\* A CSR instruction that is not trapped writes what it owes to its register.
LEMMA CsrWritten ==
    ASSUME TypeInv, NEW rs \in instruction.vals, ~irq_start, instruction.op = "CSR"
    PROVE  csr_din(rs) = Written(csr_val, rs)
  <1>1. rs \in Word /\ instruction \in Instructions
    BY OperandTyped, FetchTyped
  <1>2. csr_val \in Word
    BY <1>1 DEF TypeInv, TypeOK, csr_val, Instructions, Word
  <1>3. ~irq_stop
    BY DEF irq_stop
  <1>4. CASE instruction.alu = "ADD"
    <2>1. alu_a(rs) = rs /\ alu_b = {}
      BY <1>3, <1>4 DEF alu_a, alu_b
    <2> QED
      BY <1>1, <1>4, <2>1, AddZero DEF csr_din, alu_res, Written
  <1>5. CASE instruction.alu = "OR"
    <2>1. alu_a(rs) = rs /\ alu_b = csr_val
      BY <1>3, <1>5 DEF alu_a, alu_b
    <2> QED
      BY <1>5, <2>1 DEF csr_din, alu_res, Written
  <1>6. CASE instruction.alu = "AND"
    <2>1. alu_a(rs) = BitNot(rs) /\ alu_b = csr_val
      BY <1>3, <1>6 DEF alu_a, alu_b
    <2> QED
      BY <1>2, <1>6, <2>1 DEF csr_din, alu_res, Written, BitNot, Word
  <1> QED
    BY <1>1, <1>4, <1>5, <1>6 DEF Instructions

LEMMA FallKeeps == TypeInv /\ FrameKept /\ Fall => FrameKept'
  <1> SUFFICES ASSUME TypeInv, FrameKept, Fall, frame' \in Frames PROVE FrameKept'
    BY DEF FrameKept
  <1>1. /\ clk = "high" /\ clk' = "low" /\ (irq_stop' = irq_stop)
    BY StopKept DEF Fall
  <1>2. PICK rs \in instruction.vals :
          MstatusWrite(rs) /\ MepcWrite(rs) /\ frame' = Owe(rs)
    BY DEF Fall
  <1>3. CASE irq_start
    <2>1. ~irq_stop
      BY <1>3, ReturnIsNotTrapped
    <2>2. frame' = [epc |-> pc, mie |-> MIE \in mstatus]
      BY <1>2, <1>3, TrapAssumption DEF Owe
    <2>3. mepc' = pc /\ (MPIE \in mstatus') = (MIE \in mstatus)
      BY <1>2, <1>3 DEF MepcWrite, MstatusWrite, Moved, MIE, MPIE
    <2> QED
      BY <1>1, <2>1, <2>2, <2>3 DEF FrameKept
  <1>4. CASE ~irq_start /\ irq_stop
    <2>1. ~CsrWrite("MEPC") /\ ~CsrWrite("MSTATUS")
      BY <1>4 DEF CsrWrite, irq_stop
    <2>2. frame \in Frames
      BY <1>2, <1>4 DEF Owe
    <2>3. frame'.epc = frame.epc /\ frame'.mie = frame.mie
      BY <1>2, <1>4, <2>1, <2>2 DEF Owe
    <2>4. frame.epc = mepc /\ frame.mie = (MPIE \in mstatus)
      BY <1>1, <2>2 DEF FrameKept
    <2>5. mepc' = mepc /\ (MIE \in mstatus') = (MPIE \in mstatus)
      BY <1>2, <1>4, <2>1 DEF MepcWrite, MstatusWrite, Moved, MIE, MPIE
    <2> QED
      BY <1>1, <1>4, <2>3, <2>4, <2>5 DEF FrameKept
  <1>5. CASE ~irq_start /\ ~irq_stop
    <2>1. frame \in Frames
      BY <1>2, <1>5 DEF Owe
    <2>2. frame.epc = mepc /\ frame.mie = (MPIE \in mstatus)
      BY <1>5, <2>1 DEF FrameKept
    <2>3. frame'.epc = mepc'
      <3>1. CASE CsrWrite("MEPC")
        <4>1. csr_din(rs) = Written(mepc, rs)
          BY <1>5, <3>1, CsrWritten DEF CsrWrite, csr_val
        <4> QED
          BY <1>2, <1>5, <2>1, <2>2, <3>1, <4>1 DEF Owe, MepcWrite
      <3>2. CASE ~CsrWrite("MEPC")
        BY <1>2, <1>5, <2>1, <2>2, <3>2 DEF Owe, MepcWrite
      <3> QED
        BY <3>1, <3>2
    <2>4. frame'.mie = (MPIE \in mstatus')
      <3>1. CASE CsrWrite("MSTATUS")
        <4>1. csr_din(rs) = Written(mstatus, rs)
          BY <1>5, <3>1, CsrWritten DEF CsrWrite, csr_val
        <4>2. mstatus' = Written(mstatus, rs)
          BY <1>2, <1>5, <3>1, <4>1 DEF MstatusWrite
        <4>3. frame'.mie = (MPIE \in Written(IF frame.mie THEN {MPIE} ELSE {}, rs))
          BY <1>2, <1>5, <2>1, <3>1 DEF Owe
        <4>4. instruction.alu \in {"ADD", "OR", "AND"}
          BY <3>1, FetchTyped DEF CsrWrite, Instructions
        <4> QED
          BY <2>2, <4>2, <4>3, <4>4 DEF Written
      <3>2. CASE ~CsrWrite("MSTATUS")
        <4>1. frame'.mie = frame.mie
          BY <1>2, <1>5, <2>1, <3>2 DEF Owe
        <4>2. mstatus' = mstatus
          BY <1>2, <1>5, <3>2 DEF MstatusWrite
        <4> QED
          BY <2>2, <4>1, <4>2
      <3> QED
        BY <3>1, <3>2
    <2> QED
      BY <1>1, <1>5, <2>3, <2>4 DEF FrameKept
  <1> QED
    BY <1>3, <1>4, <1>5

LEMMA RiseKeeps == FrameKept /\ Rise => FrameKept'
  <1> SUFFICES ASSUME FrameKept, Rise, frame' \in Frames PROVE FrameKept'
    BY DEF FrameKept
  <1>1. ~irq_stop /\ frame' = frame
    BY TrapAssumption DEF Rise, Settle
  <1>2. clk' = "high" /\ mepc' = mepc /\ mstatus' = mstatus
    BY DEF Rise
  <1> QED
    BY <1>1, <1>2 DEF FrameKept

LEMMA DeviceKeeps == FrameKept /\ Device => FrameKept'
  <1> SUFFICES ASSUME FrameKept, Device PROVE FrameKept'
    OBVIOUS
  <1>1. irq_stop' = irq_stop
    BY StopKept DEF Device, core
  <1>2. UNCHANGED <<frame, mepc, mstatus, clk>>
    BY DEF Device, core
  <1> QED
    BY <1>1, <1>2 DEF FrameKept

\* FrameKept: what csr.sv saves of a trap is kept, or changed as the handler's
\* own CSR instructions owe it, by every step of every program.
THEOREM FrameIsKept == Spec => []FrameKept
  <1>1. Init => FrameKept
    BY TrapAssumption DEF Init, FrameKept
  <1>2. TypeInv /\ FrameKept /\ [Next]_vars => FrameKept'
    <2> SUFFICES ASSUME TypeInv, FrameKept, [Next]_vars PROVE FrameKept'
      OBVIOUS
    <2>1. CASE Fall
      BY <2>1, FallKeeps
    <2>2. CASE Rise
      BY <2>2, RiseKeeps
    <2>3. CASE Device
      BY <2>3, DeviceKeeps
    <2>4. CASE UNCHANGED vars
      <3>1. irq_stop' = irq_stop
        BY <2>4, StopKept DEF vars, core
      <3> QED
        BY <2>4, <3>1 DEF FrameKept, vars, core
    <2> QED
      BY <2>1, <2>2, <2>3, <2>4 DEF Next
  <1> QED
    BY <1>1, <1>2, TypesHold, PTL DEF Spec

\* The ALU of a return adds four to mepc.
LEMMA ReturnTarget ==
    ASSUME TypeInv, irq_stop, NEW rs
    PROVE  next_pc(rs) = Add(mepc, ToWord(4)) \ {0}
  <1>1. instruction.alu = "ADD"
    BY FetchTyped DEF irq_stop, Instructions
  <1>2. alu_a(rs) = mepc /\ alu_b = ToWord(4)
    BY DEF alu_a, alu_b
  <1> QED
    BY <1>1, <1>2 DEF next_pc, pc_jump, csr_din, alu_res

\* TrapReturns: csr.sv and riscv_core.sv return an undisturbed trap to the
\* instruction behind the one it trapped, with mstatus.MIE as it was, or where
\* and how its handler has written them.
THEOREM TrapsReturn == Spec => TrapReturns
  <1>1. TypeInv /\ FrameKept /\ [Next]_vars =>
          [clk = "low" /\ clk' = "high" /\ irq_stop /\ frame \in Frames
           => /\ pc' = Add(frame.epc, ToWord(4)) \ {0}
              /\ (MIE \in mstatus) = frame.mie]_vars
    <2> SUFFICES ASSUME TypeInv, FrameKept, Next,
                        clk = "low", clk' = "high", irq_stop, frame \in Frames
                 PROVE  /\ pc' = Add(frame.epc, ToWord(4)) \ {0}
                        /\ (MIE \in mstatus) = frame.mie
      BY DEF vars
    <2>1. Rise
      BY DEF Next, Fall, Device
    <2>2. imem_req
      BY DEF irq_stop, instruction, Zero
    <2>3. pc' = Add(mepc, ToWord(4)) \ {0}
      BY <2>1, <2>2, ReturnTarget DEF Rise
    <2> QED
      BY <2>3 DEF FrameKept
  <1> QED
    BY <1>1, TypesHold, FrameIsKept, PTL DEF Spec, TrapReturns
=============================================================================
