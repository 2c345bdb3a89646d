----------------------------- MODULE MCRiscvSim -----------------------------
(***************************************************************************)
(* RiscvSim with registers of 16 bits, four or three registers per loop,   *)
(* instruction memories of 36 words, and eight positions of the patterns.  *)
(***************************************************************************)
EXTENDS RiscvSim

MCZeroCmd == Zero
MCCommands == [op : 0 .. 127, rd : 0 .. 31, f3 : 0 .. 7, rs1 : 0 .. 31, rs2 : 0 .. 31,
               f7 : 0 .. 127]
MCWords == 0 .. 2^XLEN - 1

\* What rand() returns: fixed numbers, whose low digit avoids a data base
\* address of 0 and a LUI immediate of 8 (see README).
RANDS == <<29347, 1209, 17461, 30765, 8011, 22917, 3622, 12873, 26397, 5495, 31187>>

\* The walking ones at both ends of the patterns, and the ones before them.
PICKS == <<0, 1, 2, 3, 4, 6, 9, 33>>

Test(gen, arg, bits, unsigned, picks, regs) ==
    [gen |-> gen, arg |-> arg, bits |-> bits, unsigned |-> unsigned, depth |-> 36,
     regs |-> regs, max_reg |-> 4, picks |-> picks, rands |-> RANDS]

BRANCHES == DOMAIN B_TYPE
CSR_COMMANDS == DOMAIN CSR_OP

MCTests ==
    {Test("test_acceptance", "", XLEN, FALSE, PICKS, 4)}
    \cup {Test("test_utype_jumps", arg, XLEN, FALSE, PICKS, 3) :
            arg \in {"AUIPC", "forward", "backward"}}
    \cup {Test("test_stype_addr", "", bits, FALSE, [k \in 1 .. 34 |-> k - 1], 4) : bits \in {8, 16}}
    \cup {Test("test_stype_data", "", bits, FALSE, PICKS, 4) : bits \in {8, 16}}
    \cup {Test(gen, "", bits, unsigned, PICKS, 4) :
            gen \in {"test_itype_load_addr_bits", "test_itype_load_data_bits"},
            bits \in {8, 16}, unsigned \in BOOLEAN}
    \cup {Test("test_itype_arithmetic", op, XLEN, FALSE, PICKS, 4) :
            op \in DOMAIN FUNCT3 \ {"SUB"}}
    \cup {Test("test_rtype", op, XLEN, FALSE, PICKS, 3) : op \in DOMAIN FUNCT3}
    \cup {Test(gen, b, XLEN, FALSE, PICKS, 4) :
            gen \in {"test_btype_no_jumps", "test_btype_jump_forward",
                     "test_btype_jump_backward"}, b \in BRANCHES}
    \cup {Test("test_zicsr", c, XLEN, FALSE, <<1, 4, 33>>, 3) : c \in CSR_COMMANDS}
    \cup {[Test("test_traps", arg, XLEN, FALSE, PICKS, 4) EXCEPT !.depth = 1024] :
            arg \in {"EBREAK", "illegal", "irq"}}

MCFaults ==
    {[kind |-> "none", after |-> 0, test |-> "all"]}
    \cup [kind : {"lost", "extra", "addr", "wr", "data"}, after : {0, 3, 9, 19},
          test : {"forward", "irq"}]
=============================================================================
