------------------------------ MODULE RiscvSim ------------------------------
(***************************************************************************)
(* The whole simulation: the generators fill the queues for one of the     *)
(* tests of test.cpp, the environment runs it against the processor, and   *)
(* the clock edges the components wait for are steps of the processor.     *)
(* One transaction of the bus may be shown wrong, which stands for a bug   *)
(* of a processor that the test is there to find.                          *)
(***************************************************************************)
EXTENDS RiscvTraps, RiscvCore, RiscvBench

CONSTANTS Tests,        \* the tests, with the bounds of their loops
          Faults        \* what may go wrong on the bus: [kind, after, test]

VARIABLES core, test, fault

simVars == <<benchVars, core, test, fault>>

\* The tests: what they have generated when they call Environment::main.
test_acceptance(t) ==
    generate_csr_acceptance(t, generate_itype_load_acceptance(t, generate_stype_acceptance(t, New)))
test_stype_addr(t) == generate_stype_imm_lui_imm(t, New)
test_stype_data(t) == generate_stype_data(t, New)
test_itype_load_addr_bits(t) == generate_itype_load_address(t, New)
test_itype_load_data_bits(t) == generate_itype_load_data(t, New)
test_itype_arithmetic(t) == generate_itype_arithmetic(t, New)
test_rtype(t) == generate_rtype(t, New)
test_utype_jumps(t) ==
    CASE t.arg = "AUIPC"    -> generate_auipc(t, New)
      [] t.arg = "forward"  -> generate_jal_forward(t, New)
      [] t.arg = "backward" -> generate_jal_backward(t, New)
test_btype_no_jumps(t) == generate_btype_no_jump(t, New)
test_btype_jump_forward(t) == generate_btype_forward(t, New)
test_btype_jump_backward(t) == generate_btype_backward(t, New)
test_zicsr(t) == generate_csr_read_write(t, New)
test_traps(t) ==
    CASE t.arg = "EBREAK"  -> generate_trap_ebreak(t, New)
      [] t.arg = "illegal" -> generate_trap_illegal_cmd(t, New)
      [] t.arg = "irq"     -> generate_trap_irq_external_enabled(t,
                                  generate_trap_irq_external_disabled(t, New))

Generate(t) ==
    CASE t.gen = "test_acceptance"           -> test_acceptance(t)
      [] t.gen = "test_stype_addr"           -> test_stype_addr(t)
      [] t.gen = "test_stype_data"           -> test_stype_data(t)
      [] t.gen = "test_itype_load_addr_bits" -> test_itype_load_addr_bits(t)
      [] t.gen = "test_itype_load_data_bits" -> test_itype_load_data_bits(t)
      [] t.gen = "test_itype_arithmetic"     -> test_itype_arithmetic(t)
      [] t.gen = "test_rtype"                -> test_rtype(t)
      [] t.gen = "test_utype_jumps"          -> test_utype_jumps(t)
      [] t.gen = "test_btype_no_jumps"       -> test_btype_no_jumps(t)
      [] t.gen = "test_btype_jump_forward"   -> test_btype_jump_forward(t)
      [] t.gen = "test_btype_jump_backward"  -> test_btype_jump_backward(t)
      [] t.gen = "test_zicsr"                -> test_zicsr(t)
      [] t.gen = "test_traps"                -> test_traps(t)

\* The first test begins with the simulation, and the clock high.
SimInit ==
    \E t \in Tests : \E f \in {x \in Faults : x.test \in {"all", t.arg}} :
      \E g \in {Generate(t)} :
            /\ test = t
            /\ fault = [kind |-> f.kind, after |-> f.after, pending |-> f.kind # "none"]
            /\ sqr = g.sqr /\ ref_fifo = g.refs /\ drv_fifo = g.drvs
            /\ abort \in (IF f.kind = "none" THEN {1} ELSE {0, 1})
            /\ IF t.gen = "test_acceptance" THEN timestamp = 0 /\ clk = 1
                                            ELSE timestamp = 76 /\ clk = 0
            /\ core = PowerOn
            /\ BenchInit

\* What the monitor is shown: after some transactions one is lost or changed,
\* or one is seen that is not there.
FaultNow(b) ==
    /\ fault.pending
    /\ Len(history.seen) = fault.after
    /\ b.req = (IF fault.kind = "extra" THEN 0 ELSE 1)
Shown(b) ==
    IF ~FaultNow(b) THEN b
    ELSE CASE fault.kind = "lost" -> [b EXCEPT !.req = 0]
           [] fault.kind = "extra" -> [b EXCEPT !.req = 1]
           [] fault.kind = "addr" -> [b EXCEPT !.addr = W(@ + 2)]
           [] fault.kind = "wr" -> [b EXCEPT !.wr = 1 - @]
           [] fault.kind = "data" -> [b EXCEPT !.wr_data = W(@ + 1), !.rd_data = W(@ + 1)]

SimStartTest == StartTest /\ UNCHANGED <<core, test, fault>>

SimStartPhase ==
    \E k \in 1 .. Len(sqr) :
        /\ StartPhase(k)
        /\ core' = Reset(boot_load(core, PhaseFile(k)))
        /\ UNCHANGED <<test, fault>>

SimDrive ==
    \E c \in {IF clk = 0 /\ timestamp < max_time THEN Rise(core, pins) ELSE core} :
        \E b \in {Bus(c, pins)} : DriverMain(b) /\ core' = c /\ UNCHANGED <<test, fault>>

SimMonitor ==
    \E c \in {Fall(core, pins)} : \E b \in {Bus(c, pins)} :
        /\ MonitorMain(Shown(b))
        /\ core' = c
        /\ fault' = [fault EXCEPT !.pending = @ /\ ~FaultNow(b)]
        /\ UNCHANGED test

SimScore ==
    /\ \/ \E b \in {Bus(core, pins)} : ScoreNothing(b) \/ ScoreMatch(b)
       \/ ScoreUnexpected
       \/ ScoreMismatch
    /\ UNCHANGED <<core, test, fault>>

SimFailed ==
    /\ PhaseFailed
    /\ \E c \in {Rise(core, pins)} : core' = Fall(c, pins)
    /\ UNCHANGED <<test, fault>>

SimEndTest == EndTest /\ UNCHANGED <<core, test, fault>>

\* The test has ended.
SimDone == at = "done" /\ UNCHANGED simVars

SimNext == \/ SimStartTest \/ SimStartPhase \/ SimDrive \/ SimMonitor \/ SimScore
           \/ SimFailed \/ SimEndTest \/ SimDone

SimSpec == SimInit /\ [][SimNext]_simVars

-----------------------------------------------------------------------------
(* Properties *)

\* A processor that works passes every test: the expected transactions, which
\* the generators work out with predicted program counters and longs of the
\* host, are those the core shows (generator.cpp, riscv_core.sv).
NoFalseAlarm == (fault.kind = "none" /\ at = "done") => err_total = 0

\* The file of a phase fits into the instruction memory, whatever the jumps
\* and the commands pushed between two expected transactions
\* (INSTRUCTIONS_LIMIT, sequences.cpp:59 and the splits of the generators).
PhaseFits == Len(core.imem) <= test.depth

\* A transaction is accepted in the phase whose number it was given when it
\* was pushed: only then does forwarding after an error find the next phase
\* (sequences.cpp:39, scoreboard.cpp:97).
SplitAligned ==
    [][(fault.kind = "none" /\ at = "score" /\ ref_fifo' # ref_fifo)
          => Head(ref_fifo).test_id = phase_num]_simVars

\* A phase is not cut short: when it ends the processor has stopped, or the
\* command it would fetch next is the zero command.  The count of commands is
\* just enough for the first phase, whose first iteration finds the clock high
\* and runs none (environment.cpp:111, driver.cpp:27, interface.cpp:153).
RunsOut ==
    [][(fault.kind = "none" /\ at = "score" /\ at' = "phase")
          => ZeroCmd \in {core.instruction, Rise(core, pins).instruction}]_simVars
=============================================================================
