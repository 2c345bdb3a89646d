# TLA+ models of the ulmitov/verilog designs

This directory specifies and checks the designs of the repository and the C++
programs that drive and test them: the UART with its FIFOs, baud generator,
registers, driver and test program; the RISC-V core with its traps; and the
RISC-V testbench with the stimuli it generates and predicts.

Every module is written from the Verilog or C++ source. `PROJECT.json` names,
for each definition, the lines it stands for.

## The system

| part | state it keeps | operations | correct when |
| --- | --- | --- | --- |
| `modules/fifo.v` | memory, two pointers, a successor of each, a count | push, pull, both at one edge, reset | it is a bounded queue |
| `modules/clock_divider.sv` | counter, output level | a clock edge, a divisor load | the output is the wave the divisor asks for and never stops |
| `UART/uart_tx.sv` | tick and bit counter, state machine with a latch, shift register | a baud tick, reset | the line carries the frame of the head of the transmit FIFO |
| `UART/uart_rx.sv` | the same, and three samples and a parity latch | a baud tick, reset | every frame is delivered once, unharmed |
| `UART/uart.sv` | edge detectors, synchroniser | joins the four above | no word is lost or doubled between FIFO and line |
| `UART/uart_top.sv` | LSR, IIR, IER, FCR, LCR, MCR, divisor latches | register reads and writes, reset | status and interrupts tell the CPU the truth |
| `UART/uart_apb.sv` | none | APB wiring | an access lasts one clock |
| `UART/driver` | the last LSR | polling, sending, receiving, set-up | accepted bytes are sent; results mean what the header says |
| `SPI/spi_top.sv` | buffers, bit counter, latched status | register access, shift, load | a word in is a word out; flags are not lost |
| `RISCV_SingleCycle/csr.sv`, `clint.sv` | machine CSRs, timer, software interrupt, round robin counter | trap entry, return, CSR access | a trap returns to where it was taken; no interrupt is lost |
| the rest of `RISCV_SingleCycle` | pc, register file | one instruction per cycle | the ISA |
| `modules/sequence.v` | detector states | an input bit | it fires exactly on its pattern |
| `modules/memory.sv`, `counter.v`, `adder.v`, `shift.v`, ... | small | combinational or one edge | arithmetic meaning |
| `UART/testbench` | the bus cycle, the data of a test | bus cycles, five tests in a fixed order | it reports an error if there is one, and only then |
| `RISCV_SingleCycle/testbench`: environment, sequencer, driver, monitor, scoreboard | four queues of transactions, phase and command counters, simulated time | start a test and a phase, drive, sample, judge, forward after an error | a test ends, and its verdict is right |
| `RISCV_SingleCycle/testbench`: generator, sequences, tests | the predicted program counter, registers and CSRs | push instructions, and the transactions and stimuli that go with them | what is expected is what a correct core does, in the phase it does it in |
| `tb_sv_alu`, `tb_uvm_*` | mailboxes, a semaphore, reference queues | the same | driver and monitor alternate |

How they interact: the CPU (or `UartDriver`, through `io_read` and `io_write`)
accesses `uart_top`; a THR write pushes the transmit FIFO, `uart_tx` offers the
head on the line bit by bit and pulls it at the stop bit; `uart_rx` samples the
line (its own transmitter in loopback, the pin otherwise) and pushes a word with
its two error bits; the register block derives status and interrupt from the
FIFOs. All of this runs on `clk`, on `baudout` divided from it, and on signals
derived from counters (`first_tick`, `last_tick`) that are used as clocks.

The RISC-V testbench is one thread. A test function pushes instructions into the
sequencer's queue, expected transactions into the scoreboard's and stimuli into
the driver's; `Environment::main` then writes the instructions of one phase at a
time to a file, resets the core, which loads it, and lets driver, monitor and
scoreboard take turns once per clock, until the phase ends on a stop condition
of the bus, a counter or a time limit.

What is hard here: edges of several derived clocks in one instant; latches that
remember a decision; two sides of an asynchronous line; status bits that are set,
cleared and read in the same cycle; registers that must agree but are written by
separate blocks; driver code that changes line settings on a word of status; a
simulation that predicts a processor in wider integers than the processor has,
while it cuts its own program into phases. `PROJECT.json` lists these hazards with their lines and the
property that watches each.

## The modules

| module | models | state and actions |
| --- | --- | --- |
| `FifoQueue` | the reference queue of `tb_uvm_fifo/scoreboard.sv` | a sequence; `Clock(push, pull, din)` pops first and pushes second, `Flush` |
| `Fifo` | `modules/fifo.v` | the registers of the code; a step is a rising edge (`Clock`, `ResetState`) |
| `FifoProofs` | | theorems about `Fifo` |
| `ClockDivider` | `modules/clock_divider.sv` | `Edge` is a rising edge of `clk_in`, `Load` a pulse of `res` with new inputs |
| `ClockDividerProofs` | | theorems about `ClockDivider` |
| `UartFrame` | LCR and the parity of both sides | the operators of both sides, and reference definitions of a frame (`FrameLevel`, `ParityOf`) written from the 16550 format |
| `UartTx` | `uart_tx.sv` and its FIFO | `TxTick` is a rising edge of `baudout` and all it causes: the wrap of the tick counter clocks state machine, bit counter and shift register |
| `UartRx` | `uart_rx.sv` | `RxTick(din)` is a rising edge of `rx_baud` at which the line has level `din`. `RxSpec` is the receiver alone: any level at any tick (`AnyTick`), LCR written (`WriteLcrRx`) and master reset (`MasterResetRx`) at any moment |
| `UartRxProofs` | | lemmas about `UartFrame` and a tick of `UartRx`, whoever sends; theorems about `RxSpec` |
| `UartScoreboard` | the reference queue of `tb_uvm_uart/scoreboard.sv` | the words written and not yet handed over, each masked to the word length; `write`, `read`, `take`, `check_apb_lcr`, `flush`, `flush_queues` |
| `UartLoop` | `uart.sv` in loopback | one `Tick` of both sides, and `Write`, `Clear`, `SetLine`, `Reset` |
| `UartLoopProofs` | | theorems about `UartLoop` |
| `UartPeer` | the receiver and an external transmitter | one `PeerTick`: the receiver samples, the peer moves on; drift, pauses and noise are the peer's choices |
| `UartPeerProofs` | | theorems about `UartPeer` |
| `UartRegs` | `uart_top.sv` with the FIFO glue of `uart.sv` | one step is one bus cycle of `clk`: falling edge (status), capture of a read, rising edge (everything else) |
| `UartRegsProofs` | | theorems about `UartRegs` |
| `RiscvAlu` | `alu.sv` with its adder and shifter, in the build of 32 bits | operators: a word is the set of its bits that are 1, so that TLC computes with all 32 and the prover with sets |
| `RiscvTrap` | `csr.sv` and the program counter of `riscv_core.sv`, in the build of `risc_pkg.sv` (ZICSR, one interrupt line) | one clock is `Fall`, which writes the CSRs, and `Rise`, which writes the program counter and `irq_started`; all between is combinational and evaluated before each edge. `Device` moves the interrupt line. An instruction is what it is, its ALU operation, the CSR it writes and the set of operands it may have. `frame` and `saved` are ghosts: what a trap in progress owes to the program (`Owe`, `Settle`), and whether the last falling edge saved one |
| `RiscvTrapProofs` | | theorems about `RiscvTrap` |
| `UartDriver` | `uart_driver.cpp`, `uart_verilated.cpp` and `uart_tb.cpp` over the whole UART in loopback | a driver call is a sequence of accesses and polls, a test a sequence of calls, the program (`main`) a sequence of tests. A bus cycle of `clk` (`WriteRegister`, `ReadRegister`, `PollStatus`, ... or `IdleCycle`, which the processor spends between accesses) moves registers, FIFOs and divider; a rising edge of `baudout` (`BaudTick`) moves transmitter and receiver |
| `RiscvCommon` | the constants of `common.h` and `risc_pkg.sv` | |
| `RiscvIsa` | `sequences.cpp` and the opcodes: words, instructions, encoders | operators; an instruction is the record of the fields of its 32 bits |
| `RiscvGenerator`, `RiscvJumps`, `RiscvTraps` | `generator.cpp` | one operator per `generate_...` function: it takes the queues as they are and returns them with what the function pushes. `push_ref`, `split` and `push_seq` do what the code does to phase numbers and sizes |
| `RiscvCore` | `riscv_core.sv`, `decode.sv`, `control.sv`, `alu.sv`, `csr.sv`, `register_file.sv`, ... | the state of the core and its memories as a record; `Rise` and `Fall` are its clock edges, `Bus` what its pins show |
| `RiscvBench` | `environment.cpp`, `sequencer.cpp`, `driver.cpp`, `monitor.cpp`, `scoreboard.cpp` | `at` is where `Environment::main` is; one action per call it makes (`StartTest`, `StartPhase`, `DriverMain`, `MonitorMain`, the four outcomes of `Scoreboard::main`, `Continue`, `PhaseFailed`, `EndTest`). The processor is a parameter: any bus state may be sampled. `history` is a ghost |
| `RiscvBenchProofs` | | theorems about `RiscvBench` |
| `RiscvSim` | `test.cpp`, `testbench.cpp` | composes the three: generated queues, the testbench, and the core at the other end of the bus; `fault` changes one transaction of the bus, as a wrong core would |
| `MC...` | instances for TLC | characters, line settings, register values, programs |

`UartTx` and `UartRegs` use the FIFO as a sequence. That is justified by
`Fifo`, which implements `FifoQueue`. `UartRegs` in turn sees receiver and
transmitter only as arrivals and pulls: arrivals are at least `Spacing` = 3
cycles apart. The real receiver has at least 112 (7 bits of 16 ticks, each of a
cycle or more): this is `SpacedOut`, a theorem about `uart_rx.sv` on any line.

`UartLoop` and `UartPeer` each implement two abstract specifications. One is
`RxSpec`: to the receiver, the own transmitter and the peer are two lines among
all, so that what is shown of the receiver alone holds with both. The other is
`UartScoreboard`, through a mapping that says what the line owes (`Owed`: the
masked words of the transmit FIFO, behind the word that has left it and is still
judged) and what it hands over (`Delivered`: `rx_out`, while `rx_done` is high).
In the scoreboard a word is read by the CPU; here it is handed over to the FIFO
from which the CPU reads it, which is the part of `UartRegs`.

Operators whose comment starts with "Mutant" are the code with a plausible bug.
Nothing uses them; they are there to be put in place of the definition that
follows them, and each makes the property it is listed for (`PROJECT.json`,
`mutants`) fail.

## What each run shows

| run | bounds | shows |
| --- | --- | --- |
| `fifo` | 4 slots, 3 words | every mix of push, pull, reset at every fill level and pointer position: `PointersAgree`, `HeadStable`, and `ImplementsQueue` (refinement of `FifoQueue`) |
| `divider` | 4-bit counter, all 16 divisors | `NoLongCount`, `WaveShape`, and under fairness of the clock `KeepsTicking` |
| `loop` | 8 ticks, FIFO of 2, bytes B2 and 55; words of 5, 7 and 8 bits, without parity and with a fixed, an odd and an even bit, stop bits of 1, 1.5 and 2 | every interleaving of ticks with writes, clears between frames, line changes and resets: `LineIsFrame` (start, data and parity bits), `FrameLasts` (the length of a frame, its stop bits included), `Faithful`, `NothingLost`, `ImplementsScoreboard` (refinement of `UartScoreboard`), and under fairness of the tick `ComesBack` |
| `rx` | 8 ticks, words of 5 bits without and of 8 with a parity bit, any level of the line at each tick | `SpacedOut`, `EveryFrameEnds`, with LCR written and resets in the middle of a frame |
| `peer` | 16 ticks, bytes B2 and 54, 8 bits with even parity and 5 without, drift 3, one wrong tick per bit, pauses of 6 and 32 ticks | `PeerFaithful`, `NoFrameMissed`, `PeerImplementsScoreboard` (refinement of `UartScoreboard` with one place). With `MaxDrift` = 4 or a pause of 5 the run fails, without noise with `MaxDrift` = 5 or a pause of 5 (for a drift of 4): `ToleranceAssumption` draws the line exactly there |
| `regs` | FIFOs of 2, 3 kinds of words, all FCR values, 3 IER values | `LossReported`, `ErrorTold`, `PolledWriteAccepted`, `InterruptSettles` over every sequence of accesses, arrivals and pulls |
| `driver` | FIFOs of 16, 16 ticks per bit, 1000 polls, as in the code; a processor that leaves 0, 3 or 7 idle cycles between accesses; the byte behind the data is 00 or FF | `NoFalseReport`, `SentIntact`, `SettledLine` over the whole program |
| `sim` | 62 tests (every test function, every opcode, branch and CSR command), eight positions of the patterns, instruction memory of 36 words (1024 for the traps), both answers to an error; 20 faults each on the test of forward jumps, which has several phases, and on that of interrupts | with a correct core `NoFalseAlarm`, `PhaseFits`, `SplitAligned`, `RunsOut`; with any of the cores `VerdictSound`, `NeverTimesOut`, `Ends` |
| `trap` | 550 programs: set-up of `mie`, `mstatus` and perhaps vectored mode, or an ECALL before it; a loop of two instructions among an addition, each of the other ALU operations, ECALL, two illegal ones and CSR writes that switch interrupts on and off; handlers of two instructions that fall through, break, stop, re-enable interrupts, and write `mepc` (one bit, an odd address, that of the MRET) or the whole of `mstatus`; the line moves at any time | `TrapReturns`, and under fairness of the clock `IrqTaken` |

In `RiscvTrap` addresses are those of bytes and registers have 32 bits. The ALU
works as in the code: its operation comes from the instruction, its operands
from the trap, the return or the CSR instruction, and what it yields is the next
address or the whole of a CSR. The programs differ in what the traps depend on:
the kind of an instruction, its ALU operation and what it writes. Setup, loop and
two handler entries give every order of an exception, an interrupt, a return and
a change of the enables. The other nine ALU operations send an interrupt
somewhere else than the handler: back into the loop, to address 0, or to where
there is no program. `SumsAreSums` in `MCRiscvTrap` compares the adder of
`RiscvAlu` with the integers.

Two slots suffice for the FIFOs of the UART: one word is empty-to-full in 16450
mode, two words give a head with a word behind it and a full FIFO that is not
the single word. B2 and 55 have neighbouring bits of both kinds and different
parities in words of 5 and 7 bits, B2 and 54 in words of 8.

`loop` counts eight ticks per bit, the smallest rate the receiver supports; `peer`
and `driver` count the sixteen of `UART_TICKS_NUM`. What `loop` leaves out, the
other line settings, depths and rates, is the part of the theorems: every safety
property of `loop`, its refinement included, is proved for all of them. `ComesBack`
alone rests on the run.

**The UART test program.** It runs with the numbers of the code. The only thing
scaled down is the fourfold test of whole buffers, which the program repeats ten
times with the same calls. `NoFalseReport` depends on the speed of the
processor, as the program does: with Verilator an access follows the other in
the next cycle (0 idle cycles). It holds up to 7 idle cycles. With 8 the test of
the truncated string (`uart_tb.cpp:149`) fails: it sends a character more than
the FIFO holds and expects it back, so that a place must become free during its
stop bit. `Past` is the byte behind the array that `uart_tb.cpp:114` reads.

**The RISC-V scaling.** The testbench builds for registers of 32 and 64 bits.
TLC's integers have 32, and the predictions need more bits than the registers:
`XLEN` is 16 and plays the part of 32. What is 32 bits wide because the
registers are is scaled along: a word has `XLEN \div 8` bytes, shift amounts are
taken modulo `XLEN`, LUI and AUIPC have `XLEN - 12` bits, the interrupt bit of
`mcause` is the highest. What belongs to the format of an instruction (12-bit
immediates, 20 bits for JAL, field positions) is not. The `long`s of the
predictions are integers; a comparison of `unsigned long`s is `UnsignedLess`.
Data sizes are a byte and a word. The constants `picks` and `regs` bound the
nested loops of the generators: positions 0 to 9 of the patterns are the
extremes and alternating bits, 33 is the last walking one; three or four
registers include x0, equal and different operands. An instruction memory of 36
words gives the jump tests several phases, which the real size does as well.
`rand()` is a fixed list, indexed by the number of instructions pushed. Its low
digit is neither 0 nor 8: with an upper immediate of four bits a random one
would often be 0 (an address inside the data memory) or the most negative one
(with a negative ADDI the prediction leaves the range of the registers,
`generator.cpp:67`), where one of twenty bits almost never is.

**Faults.** A processor that is wrong is the correct one with one transaction of
the bus lost, added, or changed in address, direction or data, after 0, 3, 9 or
19 others. The proofs below do without: they let the bus show anything.

### Where the code differs from what it says

Each of these is a run that must fail:

* `loop_clear`: a TXCLR in the middle of a frame makes that frame's pull take the
  next word written; the driver reported that word as accepted.
* `trap_vector`: the ALU computes the address of a trap with the operation of the
  instruction that is interrupted: interrupting an AND jumps to `mtvec & offset`, a
  shift to a shifted `mtvec`, a comparison to 0.
* `trap_saved`: a CSR write that enables a pending interrupt happens at the falling
  edge and starts the trap there and then; the rising edge enters the handler,
  but the edge that saves `mepc`, `mcause` and `mstatus` is past.

The last two are also why `TrapReturns` speaks of traps whose frame is unbroken:
one that was saved and entered together, and within which no other was taken
(`MPIE` keeps interrupts enabled in a handler, and there is one `mepc`). A handler
that writes `mepc` or `mstatus.MPIE` says by that where, or how, its trap is to
return: `Owe` then moves the frame as the privileged specification says
(`Written`), and the property is that the trap returns there. To go on *behind*
the trapped instruction is what the code does for interrupts, too; the property
takes that for granted, so that it does not judge `riscv_core.sv:223`.

### Observed

These came up while modelling. They are in the models where they are in reach.
Apart from a comment or two no line of the repository promises otherwise, so
that there is no property of the program for a run to refute.

* A start bit sampled on the very tick after the end of the stop bit is answered
  a whole bit late (`uart_rx.sv:75`: the tick counter has just passed 0). The
  pauses of `UartPeer` are longer than what the drift of the frame before can
  leave of the stop bit, and one tick (`ToleranceAssumption`).
* The scoreboard expects words up to `FIFO_DEPTH` and drops what is written beyond
  (`tb_uvm_uart/scoreboard.sv:145`). The loopback holds one more: a word leaves
  the transmit FIFO in the second tick of its stop bit and is handed over in the
  middle of it. That is why the refinement has `TxDepth + 1` places. The
  scoreboard takes its words off only when the CPU reads them, so that its
  sequences have to stay below the limit anyway.
* In 16450 mode DR can be set with nothing to read: after an overrun that
  coincides with a read, after RXCLR, and after a one-cycle reset out of FIFO
  mode (`uart_top.sv:130`).
* The write of DLM also writes IER (`uart_top.sv:258`; `WriteIER` does not look at
  `dlab`). `flush_fifo` leaves FIFO mode (`uart_driver.cpp:59`).
* `poll_rx` returns 1 when the FIFO is not empty, the opposite of its comment in
  `uart_driver.h:171`; `recv` relies on the code, not on the comment.
* TEMT is set with the stop bits still to come, so that `poll_tx_finished` alone
  does not make it safe to change the line settings. In the program each change
  follows a character that was received (`SettledLine`); the word length then
  changes during the stop bits, and the frame survives it (`SentIntact`).
* `sequencer.cpp:37`: `val & 0x3 == 3` is `val & 1`. A command of 32 bits is odd and
  written as four bytes, as intended; of the others only those that end in 01
  would be, too. `sequencer.cpp:39` reads the front of a queue that may be
  empty; either answer ends the loop.
* `generator.cpp:637`: the predicted program counter of AUIPC restarts at
  `INSTRUCTIONS_LIMIT` commands, while phases are cut by the total size, zero
  commands included. From the fourth phase on the predictions would be wrong;
  it takes `REGS_NUM` 32 to get there.
* `generator.cpp:1101` and `1263` judge the next jump by the pattern just used, and
  `generate_btype_backward` counts a jump that is not taken like one that is. The
  phases stay short enough (`PhaseFits`).
* An unexpected transaction ends the phase without being counted as an error
  (`scoreboard.cpp:42`); `post_test` finds it, because it stays in its queue.

### Fairness and termination

`FairSpec` (divider, trap) and `LoopFairSpec` (loop) assume weak fairness of the
clock edges only: clocks run. No user action is fair. `KeepsTicking` speaks of behaviours in
which the divisor is written finitely often, since each write restarts the wave;
`ComesBack` lets a reset give up the words that were waiting.

The testbench needs no fairness: it is sequential and goes on until it is done.
That it ends is the action property `Ends`, a variant that every step makes
smaller: commands that are left, then the count of the phase, then the place in
the round. A step that is not taken is a deadlock, which TLC looks for.

## What is proved

TLAPS proves, for every value of the constants (from the named assumptions
`DepthAssumption`, `DataAssumption`, `SpanAssumption`, `DivisorsAssumption`,
`FrameAssumption`, `ResetAssumption`, `TxAssumption`, `PeerAssumption`,
`ToleranceAssumption`, `RegsAssumption`, `TrapAssumption`, `DmemAssumption`,
`BenchAssumption`; TLC evaluates each of them in the runs):

* `FifoTypeCorrect`, `FifoPointersAgree`: the inductive invariant of the FIFO is
  the conjunction of the types and `PointersAgree`. Neither is inductive alone:
  the count stays below its width only because it never passes the depth, and
  this needs the casez, whose cases match the two enables only through the
  relation of the pointers and the count.
* `FifoImplementsQueue`: the state maps to the words between the pointers
  (`Contents`); a reset maps to `Flush`, an edge to `Clock` with the same inputs.
  The lemmas `ContentsSeq` and `ClockRefines` do the modular arithmetic of slots.
* `FifoHeadStable`: an action property from the same invariant.
* `DividerTypeCorrect`, `DividerNoLongCount`, `DividerWaveShape`: the counter of
  a divider keeps to its width, that of a loaded one never
  passes the divisor, and the output level is a function of the counter.
* `RegsLossReported`: strengthened by "nothing is unreported right after an LSR
  read", which is where setting and clearing of OE meet.
* `RegsPolledWriteAccepted`: strengthened by "after a poll that showed TF the FIFO
  is empty and no clear is pending"; it holds because the poll itself is the
  cycle without a write that clears TXCLR.
* `RegsTypeCorrect`: the FIFOs keep to their depths only together with "in 16450
  mode there is one word at most", which the pushes and pulls of the FIFO glue
  and the mode changes of the driver keep (`TypeInv`).
* `RegsErrorTold`: `ToldInv` relates, for PE and FE, the flag in LSR, the error bit
  of the word at the head and what the CPU was told. It has to say, too, what the
  flags may be while DR is not yet set: it is there that a new head appears
  behind the flags of the old one.
* `RegsInterruptSettles`: `QuietInv` says what is over after one quiet cycle (the
  delayed clear of OE, the edge detectors, the self-clearing bits of FCR); what
  IIR shows after the second one follows from that.
* `LoopTypeCorrect`, `LoopLineIsFrame`, `LoopFaithful`, `LoopNothingLost`,
  `LoopAcceptedIsSent`: `LineIsFrame` is about the start, data and parity bits (the
  stop bits are the part of `LoopFrameLasts`). The inductive invariant `LoopInv` has four parts. The shift
  register holds what is left of the head of the FIFO and the latch what follows
  the present state (`TxInv`). The receiver is at the bit of the transmitter, one
  tick behind; in the first tick of a bit it is in the last tick of the one before
  (`PhaseInv`). The FIFO is what is still owed, but for the word whose stop bit is
  being judged, which tx_ready has pulled already (`QueueInv`). And the receiver
  has got right what it has got so far, samples included (`GotInv`). None of them
  is inductive alone: the stop bit may be extended by a half, a reset may stop
  either side anywhere, a word may be written while the latch is open.
  `LoopAcceptedIsSent` is the property that `loop_clear` refutes, for a CPU that
  clears the transmit FIFO between frames only.
* `LoopFrameLasts`: `FrameLeft` is the number of ticks that are left of a frame, by
  the formula of the 16550; a tick takes one off it, and after the last the line
  rests or a whole frame is begun. To follow the bit counter through one,
  one and a half and two stop bits the proof needs `HalfInv`: in the half stop bit
  the tick counter is 0 or past its half, and a stop of one and a half bits has
  counted no bit.
* `LoopIsQueue`: the loopback implements `UartScoreboard`. The step is short once
  `LoopInv` is there, and shows what it is good for: `OwedIs` says that the line
  owes exactly the masked `expected` words, because the word that is judged is
  whole in the shift register (`JudgedIsWhole`, from `PhaseInv` and `GotInv`) and the
  others are the FIFO (`QueueInv`). A tick then maps to `read`, `take` or a stutter,
  a write to `write` if there is a place, a clear to a flush that leaves the word
  that is judged or none. The lemmas `MasksAppend` and `MasksHeadTail` say that
  masking a queue word by word commutes with its operations.
* `PeerIsQueue`: the same for the peer, from `PendingInv`. Its queue has one place:
  each word is handed over before the next begins.
* `RxTypeCorrect`, `RxSpacedOut`, `RxEveryFrameEnds`: about the receiver on any line,
  with LCR written whenever the CPU likes. `OpenInv` adds to the types what the
  latch of the state machine may hold: in the start bit what the vote asks for, in
  the data bits nothing but what can follow them, and up to the fourth of them only
  another data bit. From it follows what a tick between two bits does (`Follows`).
  Writes of LCR may leave the latch stale, and the invariant has to say how stale.
  `SpacedOut` follows with a measure of the ticks to the next word at the least
  (`Ahead`), `EveryFrameEnds` with one of the ticks of the frame at the most
  (`Remaining`); both are properties of single steps, so that no fairness is needed.
* `LoopReceives`, `PeerReceives`, `LoopSpacedOut`: loopback and peer implement `RxSpec`,
  which carries the theorems about the receiver over to them.
* `PeerTypeCorrect`, `PeerIsFaithful`, `PeerMissesNoFrame`: `PeerInv` measures the
  `Lag`, in ticks, between where the peer is in its frame and where the receiver
  is. Noise can hide the start bit for one tick, so that it is 0 or 1 for the whole
  frame, whatever the drift; and a bit begins at most `MaxDrift` ticks off. (`PeerTypeOK`
  is proved only; the run states what it is for.) From
  these follows `SameBit`: between the first and the last sample both are at the
  same bit. One sample at most is wrong, and then it was the wrong tick of this bit
  (`SamplesInv`), so that the vote is right. What a tick does to a receiver that has
  voted right so far is shared with the loopback (`UartRxProofs`). `ToleranceAssumption` is about the peer, not about the code: what clock and
  pauses it must have. The run `peer` satisfies it to the tick and fails beyond
  (see above), so that the theorem says how much the sampling points tolerate:
  `MaxDrift + TICK_SAMPLE_C + 1 + Late < TICKS`.
* `TrapTypeCorrect`: program counter and CSRs stay words under all ten operations of
  the ALU (`AluTyped`), and the program counter stays even, since a jump clears its
  lowest bit and the width of an instruction is even (`AddEven`).
* `FrameIsKept`, `TrapsReturn`: while a trap is undisturbed, `mepc` holds the address
  it was taken at and `mstatus.MPIE` the enable it found (from the falling edge of
  the return on, `MIE` does), or what the handler has made of them. `TrapReturns` is
  not inductive without it. The argument needs that a return is never itself trapped
  (`ReturnIsNotTrapped`), since mret masks the interrupt line and is no exception;
  that the ALU writes what a CSR instruction owes to its register, bit for bit
  (`CsrWritten`, for which CSRRW has to add 0: `AddZero`); and that nothing but an
  instruction of the handler for `mepc` or `mstatus` touches the two. A CSR write that
  is itself trapped writes neither, which is why the frame does not follow it.
* `BenchTypeCorrect`, `BenchNeverTimesOut`, `BenchEnds`, `BenchVerdict`: about the
  testbench with any test and any processor, correct or not. The time limit is
  never met because the invariant (`TimeInv`) gives an
  iteration one clock and the phase one more iteration than it counts commands,
  while the limit was set three clocks past the commands. The verdict is right because the invariant (`VerdictInv`)
  has three cases: no error yet, and every expected transaction is either matched
  or still queued, every sample and stimulus likewise (`Matched`); an error that
  was counted, with the pair that differs (`Mismatched`); or a sample nothing was
  expected for, which stays in its queue for `post_test` to find (`Unexpected`).
  It has to follow the forwarding after an error, which throws entries of the
  queues away.

Only model-checked are:

* Liveness (`KeepsTicking`, `ComesBack`, `IrqTaken`): temporal proofs from fairness
  are out of the prover's reach.
* What the generators predict (`NoFalseAlarm`, `PhaseFits`, `SplitAligned`,
  `RunsOut`): `RiscvIsa` computes with the bits of words (`Bitwise`), which the
  prover cannot use, and the generators build their queues by folds, about which a
  proof would be an induction over data.
* The driver (`DriverTypeOK`, `NoFalseReport`, `SentIntact`, `SettledLine`): these
  depend on the very test program, on its calls, the number of its polls and the
  idle cycles between them, and hold for no program in general (`loop_clear`).

## What is not modelled

* Metastability and the three-stage synchroniser; arrivals are synchronous to
  `clk`, as they are in loopback.
* Break detection, modem control, the receive threshold, LSR7: not implemented
  in the code.
* Propagation delays (`T_DELAY_FF`, `T_DELAY_PD`): simulation only.
* The change of FIFO mode while words are waiting (`ModeKept` in `UartRegs`).
* In `RiscvTrap`: `mip`, `mcause`, `mtinst` and `mscratch`, on which neither the entry
  of a trap nor its return depends (a CSR instruction on them is an ALU instruction);
  instructions with unknown bits; registers and data memory: operands come from a
  set. Misaligned instructions cannot occur (`TypeOK`). `RiscvCore` has all of these
  but the unknown bits, with the programs of the generators, not all programs.
* The interrupt controller `clint.sv`: the build joins it to the core only with
  `CLINT_EX_IRQ`, which `risc_pkg.sv` leaves commented out.
* The 64-bit build: OP-32 instructions and their generators, half and double
  words, and sizes of 24 bits. `op32` tests and the tests of those sizes are the
  same functions with another argument.
* The log files, dumps of memories and waveforms of the testbench, and the parts
  of `Interface` that print.
* `spi_top.sv`: its control is a loop of transparent latches between two clocks; in
  what order they settle is left to the simulator or the synthesis.
* `tb_sv_alu` and, but for the queues of two scoreboards, the UVM environments: their processes are ordered by mailboxes,
  a semaphore and delays of the simulator and its library.
* `sequence.v`, `counter.v`, multiplexers and flip-flops, and the gates of `adder.v` and
  `shift.v` (what these compute is in `RiscvAlu`): blocks of a few states or none that say all there is to say in their text.
* `uart_apb.sv`: wiring. `testbench.sv`: a list of stimuli. Build files and tools.
