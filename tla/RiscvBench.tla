----------------------------- MODULE RiscvBench -----------------------------
(***************************************************************************)
(* The environment of the RISC-V testbench: Environment::main with the     *)
(* sequencer, the driver, the monitor and the scoreboard, for one test.    *)
(*                                                                         *)
(* The processor is outside: each action takes b, what the bus shows when  *)
(* the component looks at it, so that what is proved here holds whatever   *)
(* the processor does.  Times are in the units of CLK_PHASE.               *)
(***************************************************************************)
EXTENDS RiscvCommon, Sequences, FiniteSets

CONSTANTS Commands,     \* instructions
          ZeroCmd,      \* the one that ends a phase
          Words         \* addresses and data

ASSUME BenchAssumption ==
    /\ ZeroCmd \in Commands
    /\ Words \subseteq Nat
    /\ 0 \in Words

VARIABLES sqr, ref_fifo, drv_fifo, rx_fifo,     \* the queues
          cmd_count, phase_num, ref_count, res_count, err_count, err_total,
          timestamp, max_time, clk, pins,       \* the interface
          at,                                   \* where Environment::main is
          abort,                                \* abort_on_first_err
          history                               \* what was expected, seen and driven

benchVars == <<sqr, ref_fifo, drv_fifo, rx_fifo, cmd_count, phase_num, ref_count, res_count,
               err_count, err_total, timestamp, max_time, clk, pins, at, abort, history>>

Bit == {0, 1}
Transactions == [wr : Bit, addr : Words, wr_data : Words, rd_data : Words, test_id : Nat]
Stimuli == [wr : Bit, addr : Words, rd_data : Words, irq : Bit, test_id : Nat]
Samples == [wr : Bit, addr : Words, wr_data : Words, rd_data : Words]
BusStates == [req : Bit, wr : Bit, addr : Words, wr_data : Words, rd_data : Words,
              stop : BOOLEAN]

\* The scoreboard accepts a received transaction: the data of a write, or the
\* data of a read.
Accepts(e, m) ==
    /\ m.addr = e.addr
    /\ m.wr = e.wr
    /\ IF e.wr = 1 THEN m.wr_data = e.wr_data ELSE m.rd_data = e.rd_data

-----------------------------------------------------------------------------
(* Environment::main: the queues were filled by a generator *)

BenchInit ==
    /\ sqr \in Seq(Commands) /\ ref_fifo \in Seq(Transactions) /\ drv_fifo \in Seq(Stimuli)
    /\ rx_fifo = << >>
    /\ cmd_count = 0 /\ phase_num = 0
    /\ ref_count = 0 /\ res_count = 0 /\ err_count = 0 /\ err_total = 0
    /\ \/ timestamp = 0 /\ clk = 1
       \/ timestamp \in Nat /\ timestamp % 80 = 76 /\ clk = 0     \* after another test
    /\ max_time = 0
    /\ pins = [rd_data |-> 0, irq |-> 0]
    /\ at = "begin"
    /\ abort \in Bit
    /\ history = [expected |-> ref_fifo, stimuli |-> Len(drv_fifo), seen |-> << >>, driven |-> 0]

\* Scoreboard::pre_test.
StartTest ==
    /\ at = "begin"
    /\ at' = "phase"
    /\ err_count' = 0
    /\ ref_count' = Len(ref_fifo)
    /\ UNCHANGED <<sqr, ref_fifo, drv_fifo, rx_fifo, cmd_count, phase_num, res_count, err_total,
                   timestamp, max_time, clk, pins, abort, history>>

\* The commands of a phase end with a zero command that no other one follows.
PhaseEnds(k) == sqr[k] = ZeroCmd /\ (k < Len(sqr) => sqr[k + 1] # ZeroCmd)
PhaseLen(k) == /\ k \in 1 .. Len(sqr)
               /\ k < Len(sqr) => PhaseEnds(k)
               /\ \A j \in 1 .. (k - 1) : ~PhaseEnds(j)

\* The instruction file of a phase of k commands.
PhaseFile(k) == SelectSeq(SubSeq(sqr, 1, k), LAMBDA cmd : cmd # ZeroCmd) \o <<ZeroCmd>>

\* Mutant: the time limit is that of the commands alone.
StartPhaseTight(k) ==
    /\ at = "phase"
    /\ PhaseLen(k)
    /\ sqr' = SubSeq(sqr, k + 1, Len(sqr))
    /\ cmd_count' = Cardinality({j \in 1 .. k : sqr[j] # ZeroCmd})
    /\ timestamp' = timestamp + CLK_PHASE * 2
    /\ max_time' = timestamp + CLK_PHASE * 2 + CLK_PHASE * 2 * cmd_count'
    /\ pins' = [pins EXCEPT !.rd_data = 0]
    /\ at' = "drive"
    /\ UNCHANGED <<ref_fifo, drv_fifo, rx_fifo, phase_num, ref_count, res_count, err_count,
                   err_total, clk, abort, history>>

\* Sequencer::main, boot_load and reset, which takes one clock, and the time
\* limit that run_phase sets.
StartPhase(k) ==
    /\ at = "phase"
    /\ PhaseLen(k)
    /\ sqr' = SubSeq(sqr, k + 1, Len(sqr))
    /\ cmd_count' = Cardinality({j \in 1 .. k : sqr[j] # ZeroCmd})
    /\ timestamp' = timestamp + CLK_PHASE * 2
    /\ max_time' = timestamp + CLK_PHASE * 2 + CLK_PHASE * 2 * (cmd_count' + 3)
    /\ pins' = [pins EXCEPT !.rd_data = 0]
    /\ at' = "drive"
    /\ UNCHANGED <<ref_fifo, drv_fifo, rx_fifo, phase_num, ref_count, res_count, err_count,
                   err_total, clk, abort, history>>

\* The driver waits for SETUP_TIME + 1 after the next rising edge.
DriveTime == IF clk = 1 THEN timestamp
             ELSE timestamp + (CLK_PHASE - (timestamp % CLK_PHASE)) + SETUP_TIME + 1

Drives(b) ==
    /\ drv_fifo # << >>
    /\ b.req = 1 /\ b.addr >= DATA_MEMORY_DEPTH
    /\ Head(drv_fifo).wr = b.wr /\ Head(drv_fifo).addr = b.addr

\* The head of the loop of run_phase, then Driver::main unless the time is over.
DriverMain(b) ==
    /\ at = "drive"
    /\ IF timestamp >= max_time
       THEN /\ at' = "phase"
            /\ phase_num' = phase_num + 1
            /\ UNCHANGED <<clk, timestamp>>
       ELSE /\ at' = "monitor"
            /\ clk' = 1
            /\ timestamp' = DriveTime + (IF Drives(b) THEN 1 ELSE 0)
            /\ UNCHANGED phase_num
    /\ IF timestamp < max_time /\ Drives(b)
       THEN /\ pins' = [rd_data |-> Head(drv_fifo).rd_data, irq |-> Head(drv_fifo).irq]
            /\ drv_fifo' = Tail(drv_fifo)
            /\ history' = [history EXCEPT !.driven = @ + 1]
       ELSE UNCHANGED <<pins, drv_fifo, history>>
    /\ UNCHANGED <<sqr, ref_fifo, rx_fifo, cmd_count, ref_count, res_count, err_count,
                   err_total, max_time, abort>>

\* The monitor waits for SETUP_TIME before the next rising edge.
MonitorTime == timestamp + (CLK_PHASE - (timestamp % CLK_PHASE)) + (CLK_PHASE - SETUP_TIME - 1)

\* Monitor::main.
MonitorMain(b) ==
    LET sample == [wr |-> b.wr, addr |-> b.addr, wr_data |-> b.wr_data, rd_data |-> b.rd_data]
    IN  /\ at = "monitor"
        /\ clk' = 0
        /\ timestamp' = MonitorTime
        /\ IF b.req = 1
           THEN /\ rx_fifo' = Append(rx_fifo, sample)
                /\ history' = [history EXCEPT !.seen = Append(@, sample)]
           ELSE UNCHANGED <<rx_fifo, history>>
        /\ at' = "score"
        /\ UNCHANGED <<sqr, ref_fifo, drv_fifo, cmd_count, phase_num, ref_count, res_count,
                       err_count, err_total, max_time, pins, abort>>

\* Mutants: a count that is not checked, not taken down, checked too early.
ContinueUnchecked(b) ==
    IF b.stop
    THEN at' = "phase" /\ phase_num' = phase_num + 1 /\ UNCHANGED cmd_count
    ELSE at' = "drive" /\ cmd_count' = cmd_count - 1 /\ UNCHANGED phase_num
ContinueUncounted(b) ==
    IF b.stop \/ cmd_count = 0
    THEN at' = "phase" /\ phase_num' = phase_num + 1 /\ UNCHANGED cmd_count
    ELSE at' = "drive" /\ UNCHANGED <<cmd_count, phase_num>>
ContinueEarly(b) ==
    IF b.stop \/ cmd_count <= 1
    THEN at' = "phase" /\ phase_num' = phase_num + 1 /\ UNCHANGED cmd_count
    ELSE at' = "drive" /\ cmd_count' = cmd_count - 1 /\ UNCHANGED phase_num

\* The end of an iteration that found no error: the phase ends when the
\* processor has stopped or the commands are counted down.
Continue(b) ==
    IF b.stop \/ cmd_count = 0
    THEN /\ at' = "phase"
         /\ phase_num' = phase_num + 1
         /\ UNCHANGED cmd_count
    ELSE /\ at' = "drive"
         /\ cmd_count' = cmd_count - 1
         /\ UNCHANGED phase_num

scoreOnly == <<sqr, drv_fifo, ref_count, err_total, timestamp, max_time, clk, pins, abort,
               history>>

\* Scoreboard::main without a received transaction.
ScoreNothing(b) ==
    /\ at = "score"
    /\ rx_fifo = << >>
    /\ Continue(b)
    /\ UNCHANGED <<ref_fifo, rx_fifo, res_count, err_count, scoreOnly>>

\* A transaction when none is expected: it stays, and is not counted.
ScoreUnexpected ==
    /\ at = "score"
    /\ rx_fifo # << >> /\ ref_fifo = << >>
    /\ at' = "failed"
    /\ UNCHANGED <<ref_fifo, rx_fifo, res_count, err_count, cmd_count, phase_num, scoreOnly>>

\* Mutant: the data of a write are not compared.
ScoreMatchAddress(b) ==
    /\ at = "score"
    /\ rx_fifo # << >> /\ ref_fifo # << >>
    /\ Head(ref_fifo).addr = Head(rx_fifo).addr /\ Head(ref_fifo).wr = Head(rx_fifo).wr
    /\ rx_fifo' = Tail(rx_fifo)
    /\ ref_fifo' = Tail(ref_fifo)
    /\ res_count' = res_count + 1
    /\ Continue(b)
    /\ UNCHANGED <<err_count, scoreOnly>>

ScoreMatch(b) ==
    /\ at = "score"
    /\ rx_fifo # << >> /\ ref_fifo # << >>
    /\ Accepts(Head(ref_fifo), Head(rx_fifo))
    /\ rx_fifo' = Tail(rx_fifo)
    /\ ref_fifo' = Tail(ref_fifo)
    /\ res_count' = res_count + 1
    /\ Continue(b)
    /\ UNCHANGED <<err_count, scoreOnly>>

ScoreMismatch ==
    /\ at = "score"
    /\ rx_fifo # << >> /\ ref_fifo # << >>
    /\ ~Accepts(Head(ref_fifo), Head(rx_fifo))
    /\ rx_fifo' = Tail(rx_fifo)
    /\ ref_fifo' = Tail(ref_fifo)
    /\ res_count' = res_count + 1
    /\ err_count' = err_count + 1
    /\ at' = "failed"
    /\ UNCHANGED <<cmd_count, phase_num, scoreOnly>>

\* The transactions that remain from the first one of a phase on.
From(queue, phase) ==
    LET earlier == {j \in 1 .. Len(queue) : \A n \in 1 .. j : queue[n].test_id # phase}
    IN  SubSeq(queue, Cardinality(earlier) + 1, Len(queue))

\* A phase that failed: a clock to see the next transaction, then the end of
\* the test or, with the queues forwarded, the next phase.
PhaseFailed ==
    /\ at = "failed"
    /\ timestamp' = timestamp + CLK_PHASE * 2
    /\ at' = "phase"
    /\ IF abort = 1
       THEN sqr' = << >> /\ UNCHANGED <<ref_fifo, drv_fifo, res_count, phase_num>>
       ELSE /\ phase_num' = phase_num + 1
            /\ IF sqr # << >>
               THEN /\ ref_fifo' = From(ref_fifo, phase_num + 1)
                    /\ drv_fifo' = From(drv_fifo, phase_num + 1)
                    /\ res_count' = res_count + (Len(ref_fifo) - Len(ref_fifo'))
               ELSE UNCHANGED <<ref_fifo, drv_fifo, res_count>>
            /\ UNCHANGED sqr
    /\ UNCHANGED <<rx_fifo, cmd_count, ref_count, err_count, err_total, max_time, clk, pins,
                   abort, history>>

One(b) == IF b THEN 1 ELSE 0

\* The checks after a test, Scoreboard::post_test and Driver::post_test.
EndTest ==
    /\ at = "phase"
    /\ sqr = << >>
    /\ at' = "done"
    /\ err_total' = err_total + One(err_count = 0 /\ drv_fifo # << >>)
         + (IF err_count # 0 THEN err_count
            ELSE One(rx_fifo # << >>) + One(res_count # ref_count \/ ref_fifo # << >>))
    /\ res_count' = 0
    /\ rx_fifo' = << >> /\ ref_fifo' = << >> /\ drv_fifo' = << >>
    /\ UNCHANGED <<sqr, cmd_count, phase_num, ref_count, err_count, timestamp, max_time, clk,
                   pins, abort, history>>

\* The environment with any processor.
BenchNext ==
    \/ StartTest
    \/ \E k \in Nat : StartPhase(k)
    \/ \E b \in BusStates : \/ DriverMain(b) \/ MonitorMain(b)
                            \/ ScoreNothing(b) \/ ScoreMatch(b)
    \/ ScoreUnexpected \/ ScoreMismatch \/ PhaseFailed \/ EndTest

BenchSpec == BenchInit /\ [][BenchNext]_benchVars

-----------------------------------------------------------------------------
(* Properties *)

TypeOK ==
    /\ sqr \in Seq(Commands)
    /\ ref_fifo \in Seq(Transactions) /\ drv_fifo \in Seq(Stimuli) /\ rx_fifo \in Seq(Samples)
    /\ cmd_count \in Nat /\ phase_num \in Nat
    /\ ref_count \in Nat /\ res_count \in Nat /\ err_count \in Nat /\ err_total \in Nat
    /\ timestamp \in Nat /\ max_time \in Nat
    /\ clk \in Bit /\ abort \in Bit
    /\ pins \in [rd_data : Words, irq : Bit]
    /\ at \in {"begin", "phase", "drive", "monitor", "score", "failed", "done"}
    /\ history \in [expected : Seq(Transactions), stimuli : Nat, seen : Seq(Samples),
                    driven : Nat]

\* The time limit of a phase, set from the number of its commands, is never
\* what ends it: whatever the processor does, the commands are counted down
\* before (run_phase, environment.cpp:97).
NeverTimesOut == at = "drive" => timestamp < max_time

\* The verdict of a test is right whatever the processor does, and whether or
\* not the test goes on after an error: no error is reported exactly when the
\* bus showed the expected transactions, all of them and no other, and every
\* stimulus was driven (scoreboard.cpp:33, 97, 114; environment.cpp:34).
VerdictSound ==
    at = "done" =>
        (err_total = 0 <=>
            /\ Len(history.seen) = Len(history.expected)
            /\ \A j \in 1 .. Len(history.seen) : Accepts(history.expected[j], history.seen[j])
            /\ history.driven = history.stimuli)

\* A test ends, whatever the processor does: an iteration brings the phase
\* nearer to its end and a phase the test, also after an error, and nothing
\* else is ever repeated (environment.cpp:34, 97; sequencer.cpp:29).
Rank == [begin |-> 6, drive |-> 5, monitor |-> 4, score |-> 3, failed |-> 2, phase |-> 1,
         done |-> 0]
InPhase == at \in {"drive", "monitor", "score", "failed"}
Nearer ==
    \/ Len(sqr') < Len(sqr)
    \/ /\ Len(sqr') = Len(sqr)
       /\ at' \in {"phase", "done"} /\ Rank[at'] < Rank[at]
    \/ /\ Len(sqr') = Len(sqr) /\ InPhase /\ InPhase'
       /\ \/ cmd_count' < cmd_count
          \/ cmd_count' = cmd_count /\ Rank[at'] < Rank[at]
Ends == [][Nearer]_benchVars
=============================================================================
