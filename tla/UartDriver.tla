----------------------------- MODULE UartDriver -----------------------------
(***************************************************************************)
(* The UART driver (uart_driver.cpp) and its test program (uart_tb.cpp) on *)
(* the UART in loopback, clock by clock: every access of the driver is one *)
(* bus cycle (uart_verilated.cpp), and the transmitter and the receiver    *)
(* take a tick at each rising edge of baudout, after the edge of clk that  *)
(* caused it.                                                              *)
(***************************************************************************)
EXTENDS UartTx, UartRx
LOCAL INSTANCE SequencesExt

CONSTANTS FIFO_DEPTH,   \* of the driver and of both FIFOs
          TIMEOUT,      \* polls, 1000 in the code
          Gaps,         \* idle cycles between two accesses, 0 under Verilator
          Past          \* what may lie behind the array of test data

ASSUME DriverAssumption == /\ FIFO_DEPTH \in Nat \ {0} /\ TxDepth = FIFO_DEPTH
                           /\ TIMEOUT \in Nat \ {0}
                           /\ Gaps \subseteq Nat
                           /\ Past \subseteq {[i \in 0 .. 7 |-> b] : b \in Bit}

VARIABLES rxf, fcr, dlab, divisor, lsr, post_lsr_rd,    \* uart_top and the FIFOs
          rx_doned, rx_done_set, tx_pulled,             \* one-cycle delays
          counter, baud, edge,      \* the divider, and a tick still to be taken
          test, step,               \* where main is
          left, taking,             \* polls left, and whether one succeeded
          saved,                    \* what get_divisor read of LCR
          buffer,                   \* what the test has received
          reported,                 \* a test reported an error
          gap, rest, past,
          owed, harmed, skipped     \* what was accepted and is to come back

hwVars == <<rxf, fcr, dlab, divisor, lsr, post_lsr_rd, rx_doned, rx_done_set, tx_pulled>>
cpuVars == <<test, step, left, taking, saved, buffer, reported, gap, rest, past>>
ghosts == <<owed, harmed, skipped>>
driverVars == <<txVars, rxVars, hwVars, counter, baud, edge, cpuVars, ghosts>>

Byte(n) == [i \in 0 .. 7 |-> (n \div 2^i) % 2]
UART_EOM == Byte(0)

-----------------------------------------------------------------------------
(* The driver: a call is a sequence of accesses.  A poll reads LSR until a  *)
(* flag is set or the timeout is used up, and then does what the call does. *)

Write(reg, val) == [op |-> "write", reg |-> reg, val |-> val]
Read(reg) == [op |-> "read", reg |-> reg]
Restore == [op |-> "restore", reg |-> "LCR"]
Poll(flag, times, then) == [op |-> "poll", flag |-> flag, times |-> times, then |-> then]

CLK_HZ == 4000000
BAUD_OSRATE == 16

freq_divisor(baud_rate, l) ==
    LET rate == baud_rate * BAUD_OSRATE
        total_bits == WordLen(l) + l.stb + 1 + (IF l.pen THEN 1 ELSE 0)
    IN  (CLK_HZ * WordLen(l) + (total_bits - 1) * rate) \div (rate * total_bits)

NoLine == [wls |-> 0, stb |-> 0, pen |-> FALSE, eps |-> FALSE, sp |-> FALSE]
LcrVal(d, l) == [dlab |-> d, line |-> l]

set_baud_rate(baud_rate, l) ==
    <<Write("LCR", LcrVal(TRUE, NoLine)),
      Write("DLL", freq_divisor(baud_rate, l) % 256),
      Write("DLM", (freq_divisor(baud_rate, l) \div 256) % 256),
      Write("LCR", LcrVal(FALSE, l))>>

get_divisor ==
    <<Read("LCR"), Write("LCR", LcrVal(TRUE, NoLine)), Read("DLL"), Read("DLM"), Restore>>

set_fifo_mode(enable) == <<Write("FCR", [fifoen |-> enable, rxclr |-> FALSE, txclr |-> FALSE])>>
flush_fifo == <<Write("FCR", [fifoen |-> FALSE, rxclr |-> TRUE, txclr |-> TRUE])>>

\* Mutant: no waiting for a character.
poll_rxOnce == <<Poll("DR", 1, "next")>>

\* Mutant: the next step does not wait for the shift register.
poll_rxNone == << >>

poll_rx == <<Poll("DR", TIMEOUT, "next")>>
poll_tx == <<Poll("TF", TIMEOUT, "next")>>
poll_tx_finished == <<Poll("TE", TIMEOUT, "next")>>

\* Mutant: nothing waits for the FIFO.
tx_byteBlind(data) == <<Write("THR", data)>>

tx_byte(data) == <<[op |-> "poll", flag |-> "TF", times |-> TIMEOUT, then |-> "send",
                    val |-> data]>>
send(arr) == FlattenSeq([j \in 1 .. Len(arr) |-> tx_byte(arr[j])])

recv_ch == <<Poll("DR", 1, "take")>>
recv == <<Poll("DR", TIMEOUT, "recv")>>

-----------------------------------------------------------------------------
(* The tests: a check that fails ends the test, and main unless the result *)
(* of the test is not used.                                                *)

\* rx_fifo_empty and is_overrun, which are to say that the flag is clear or set.
FlagClear(flag) == Poll(flag, 1, "clear")
FlagSet(flag) == Poll(flag, 1, "set")
Received(chars) == [op |-> "check", val |-> chars]
NothingLeft == <<FlagClear("OE"), FlagClear("DR")>>

setup(l) ==
    [body |-> <<Write("MCR", "loopback")>> \o set_baud_rate(115200, l) \o get_divisor
              \o <<Read("LCR")>>,
     used |-> FALSE]

\* What a character is after its way through words of a length.
Cut(c, l) == Masked(c, l)

test_single_char(ch) ==
    [body |-> tx_byte(ch) \o poll_rx \o <<FlagSet("DR")>> \o recv_ch
              \o <<Received(<<ch>>)>> \o NothingLeft,
     used |-> FALSE]

test_single_byte(ch, exp) ==
    [body |-> tx_byte(ch) \o poll_rx \o recv_ch \o <<Received(<<exp>>)>> \o NothingLeft,
     used |-> TRUE]

\* The comparison goes on until it meets a zero, behind the end of the array.
test_send_data(arr, l) ==
    [body |-> send(arr) \o poll_tx_finished \o recv
              \o <<[op |-> "compare", val |-> [j \in 1 .. Len(arr) |-> Cut(arr[j], l)]]>>
              \o NothingLeft,
     used |-> TRUE]

test_send_string_truncated(arr, exp) ==
    [body |-> send(arr) \o poll_tx_finished \o recv \o <<Received(exp)>> \o NothingLeft,
     used |-> TRUE]

test_chars_override(a, b, c) ==
    [body |-> tx_byte(a) \o poll_rx \o tx_byte(b) \o poll_tx \o tx_byte(c) \o poll_tx \o poll_tx
              \o recv_ch \o <<Received(<<a>>)>> \o recv_ch \o <<Received(<< >>)>>,
     used |-> TRUE]

Call(accesses) == [body |-> accesses, used |-> FALSE]

Line(w, s, par) == [wls |-> w, stb |-> s, pen |-> par # "none", eps |-> par \in {"even", "stick0"},
                    sp |-> par \in {"stick0", "stick1"}]
parity_vals == <<"none", "odd", "even", "stick0", "stick1">>

\* Four words of different lengths, for every parity and number of stop bits.
SingleBytes ==
    FlattenSeq([n \in 1 .. 40 |->
        LET l == Line(3 - ((n - 1) % 4), (n - 1) \div 20, parity_vals[1 + (((n - 1) \div 4) % 5)])
        IN  <<setup(l), test_single_byte(Byte(250), Cut(Byte(250), l))>>])

data_8bit ==
    LET data == <<240, 225, 210, 195, 180, 165, 182, 199, 216, 233, 250, 235, 220, 205, 190, 175>>
    IN  [j \in 1 .. FIFO_DEPTH |-> Byte(data[1 + ((j - 1) % 16)])]

\* The program runs these four tests ten times.
SendData ==
    FlattenSeq([n \in 1 .. 4 |->
        LET l == Line(4 - n, 1, "even")
        IN  <<setup(l), test_send_data(data_8bit, l)>>])

\* Three characters more than fit.
LongString == [j \in 1 .. FIFO_DEPTH + 4 |-> Byte(IF j < FIFO_DEPTH - 1 THEN 58 ELSE 70)]

main ==
    <<Call(<<Write("IER", 0)>> \o set_fifo_mode(FALSE)),
      setup(Line(3, 1, "even")), test_single_char(Byte(90))>>
    \o SingleBytes
    \o <<Call(set_fifo_mode(TRUE))>>
    \o SendData
    \o <<setup(Line(3, 1, "odd")), Call(set_fifo_mode(TRUE)),
         test_send_string_truncated(LongString, SubSeq(LongString, 1, FIFO_DEPTH + 1)),
         Call(set_fifo_mode(FALSE)),
         test_chars_override(Byte(65), Byte(66), Byte(67)),
         Call(flush_fifo)>>

-----------------------------------------------------------------------------
(* The UART: one cycle of clk *)

rx_full == IF fcr.fifoen THEN Len(rxf) >= FIFO_DEPTH ELSE rxf # << >>
tx_full == IF fcr.fifoen THEN Len(thr) >= FIFO_DEPTH ELSE thr # << >>
rx_ready == rx_done /\ ~rx_done_set
thr_wr(reg) == reg = "THR" /\ ~dlab
rbr_rd(reg) == reg = "RBR" /\ ~dlab
tsr_empty == tx_fsm \notin {"START", "DATA", "PARITY"}

\* The falling edge.
LineStatus(reg) ==
    [DR |-> IF fcr.fifoen THEN rxf # << >> ELSE ~rbr_rd(reg) /\ (rx_doned \/ lsr.DR),
     OE |-> (rx_full /\ rx_ready) \/ (lsr.OE /\ ~post_lsr_rd),
     TF |-> thr = << >>,
     TE |-> thr = << >> /\ tsr_empty]

\* Mutant: the receiver pushes into a full FIFO.
RxQueueUnguarded(reg) ==
    LET rest_rxf == IF rbr_rd(reg) /\ rxf # << >> THEN Tail(rxf) ELSE rxf
    IN  IF fcr.rxclr THEN << >> ELSE IF rx_ready THEN Append(rest_rxf, sout) ELSE rest_rxf

\* The rising edge of the FIFOs: the receiver pushes, the transmitter pulls.
RxQueue(reg) ==
    LET rest_rxf == IF rbr_rd(reg) /\ rxf # << >> THEN Tail(rxf) ELSE rxf
    IN  IF fcr.rxclr THEN << >>
        ELSE IF rx_ready /\ ~rx_full THEN Append(rest_rxf, sout) ELSE rest_rxf
TxQueue(reg, val) ==
    LET rest_thr == IF tx_ready /\ ~tx_pulled /\ thr # << >> THEN Tail(thr) ELSE thr
    IN  IF fcr.txclr THEN << >>
        ELSE IF thr_wr(reg) /\ ~tx_full THEN Append(rest_thr, val) ELSE rest_thr

Registers(reg, val) ==
    /\ fcr' = IF reg = "FCR" THEN val
              ELSE IF reg \in {"THR", "LCR", "DLL", "DLM", "MCR", "IER"} THEN fcr
              ELSE [fcr EXCEPT !.rxclr = FALSE, !.txclr = FALSE]
    /\ IF reg = "LCR" THEN dlab' = val.dlab /\ lcr' = val.line ELSE UNCHANGED <<dlab, lcr>>
    /\ divisor' = CASE reg = "DLL" -> divisor - (divisor % 256) + val
                    [] reg = "DLM" -> (divisor % 256) + val * 256
                    [] OTHER -> divisor

\* A write with DLAB set holds the divider in reset.
baud_load(op) == dlab /\ op \in {"write", "restore"}

Divide(op) ==
    IF baud_load(op) THEN counter' = 1 /\ baud' = 1 /\ edge' = FALSE
    ELSE LET switch_clk == divisor > 1 /\ (counter = divisor \/ counter = divisor \div 2)
         IN  /\ counter' = IF counter = divisor THEN 1 ELSE (counter + 1) % 65536
             /\ baud' = IF switch_clk THEN 1 - baud ELSE baud
             /\ edge' = (switch_clk /\ baud = 0)

\* What is accepted comes back as the word length cuts it.
Account(reg, val) ==
    LET accepted == thr_wr(reg) /\ ~tx_full /\ ~fcr.txclr
        rest_owed == IF rx_ready /\ owed # << >> THEN Tail(owed) ELSE owed
    IN  /\ owed' = IF accepted THEN Append(rest_owed, Cut(val, lcr)) ELSE rest_owed
        /\ harmed' = (harmed \/ (rx_ready /\ (owed = << >> \/ rx_out # [data |-> Head(owed),
                                                       perr |-> FALSE, ferr |-> FALSE])))
        /\ skipped' = (skipped \/ (reg = "THR" /\ ~accepted))

Cycle(op, reg, val) ==
    /\ ~edge
    /\ baud_load(op) => baud = 1
    /\ lsr' = LineStatus(reg)
    /\ post_lsr_rd' = (reg = "LSR")
    /\ rxf' = RxQueue(reg)
    /\ thr' = TxQueue(reg, val)
    /\ rx_doned' = rx_ready /\ rx_done_set' = rx_done /\ tx_pulled' = tx_ready
    /\ Registers(reg, val)
    /\ Divide(op)
    /\ Account(reg, val)
    /\ UNCHANGED <<tx_junk, tx_fsm, count_ticks, count_bits, tsr>>
    /\ LatchFollows
    /\ UNCHANGED <<rx_fsm, rx_ticks, rx_bits, s0, s1, s2, rsr_data, parity_bit>>
    /\ next_rx_fsm' = RxLatch(rx_fsm, voted_din, rx_last_bit', lcr'.pen, tx_dout', next_rx_fsm)

\* The rising edge of baudout.
BaudTick ==
    /\ edge
    /\ edge' = FALSE
    /\ count_ticks' = TicksNext
    /\ IF count_ticks' = 0 THEN FirstTick ELSE UNCHANGED <<tx_fsm, count_bits, tsr>>
    /\ UNCHANGED <<lcr, thr, tx_junk>>
    /\ LatchFollows
    /\ RxTick(tx_dout)
    /\ UNCHANGED <<hwVars, counter, baud, cpuVars, ghosts>>

-----------------------------------------------------------------------------
(* The test program *)

Running == test <= Len(main)
Instr == main[test].body[step]
Next1 == IF step < Len(main[test].body) THEN <<test, step + 1>> ELSE <<test + 1, 1>>
PastTest == IF main[test].used THEN <<Len(main) + 1, 1>> ELSE <<test + 1, 1>>
Polls(at) == IF at[1] <= Len(main) /\ main[at[1]].body[at[2]].op = "poll"
             THEN main[at[1]].body[at[2]].times ELSE 0

Goto(at) == test' = at[1] /\ step' = at[2] /\ left' = Polls(at) /\ taking' = FALSE

\* A driver call goes on, or it ends with or without an error.
Advance == Goto(Next1) /\ UNCHANGED reported
Fail == Goto(PastTest) /\ reported' = TRUE
Judge(right) == IF right THEN Advance ELSE Fail

AccessStep == rest = 0 /\ rest' = gap /\ UNCHANGED <<gap, past>>

\* The driver writes or reads a register.
WriteRegister ==
    /\ Running /\ Instr.op = "write"
    /\ Cycle("write", Instr.reg, Instr.val)
    /\ Advance
    /\ AccessStep /\ UNCHANGED <<saved, buffer>>
RestoreLcr ==
    /\ Running /\ Instr.op = "restore"
    /\ Cycle("restore", "LCR", saved)
    /\ Advance
    /\ AccessStep /\ UNCHANGED <<saved, buffer>>
ReadRegister ==
    /\ Running /\ Instr.op = "read"
    /\ Cycle("read", "NONE", 0)
    /\ saved' = IF Instr.reg = "LCR" THEN LcrVal(dlab, lcr) ELSE saved
    /\ Advance
    /\ AccessStep /\ UNCHANGED buffer

\* A poll of LSR: the call polls again, goes on to its access, or ends.
PollStatus ==
    /\ Running /\ Instr.op = "poll" /\ ~taking
    /\ Cycle("read", "LSR", 0)
    /\ LET flag == lsr'[Instr.flag]
       IN  IF ~flag /\ left > 1
           THEN left' = left - 1 /\ UNCHANGED <<test, step, taking, reported>>
           ELSE IF flag /\ Instr.then \in {"send", "take", "recv"}
           THEN taking' = TRUE /\ UNCHANGED <<test, step, left, reported>>
           ELSE CASE Instr.then = "set"   -> Judge(flag)
                  [] Instr.then = "clear" -> Judge(~flag)
                  [] OTHER                -> Advance
    /\ AccessStep /\ UNCHANGED <<saved, buffer>>

\* tx_byte after a poll that found the FIFO empty.
WriteData ==
    /\ Running /\ taking /\ Instr.then = "send"
    /\ Cycle("write", "THR", Instr.val)
    /\ Advance
    /\ AccessStep /\ UNCHANGED <<saved, buffer>>

\* rx_byte after a poll that found data; recv goes on until it reads a zero.
\* An empty FIFO would show an old word.
ReadData ==
    /\ Running /\ taking /\ Instr.then \in {"take", "recv"}
    /\ Cycle("read", "RBR", 0)
    /\ \E ch \in (IF rxf = << >> THEN Chars ELSE {Cut(Head(rxf), lcr)}) :
         IF Instr.then = "recv" /\ ch # UART_EOM
         THEN /\ buffer' = Append(buffer, ch)
              /\ taking' = FALSE /\ left' = TIMEOUT
              /\ UNCHANGED <<test, step, reported>>
         ELSE /\ buffer' = IF ch = UART_EOM THEN buffer ELSE Append(buffer, ch)
              /\ Advance
    /\ AccessStep /\ UNCHANGED saved

\* A comparison, which takes no cycle.
CheckData ==
    /\ Running /\ Instr.op \in {"check", "compare"} /\ ~edge
    /\ Judge(IF Instr.op = "check" THEN buffer = Instr.val
             ELSE IsPrefix(Instr.val, buffer) /\ past = UART_EOM)
    /\ buffer' = << >>
    /\ UNCHANGED <<txVars, rxVars, hwVars, counter, baud, edge, saved, gap, rest, past, ghosts>>

\* The program does something else, or has ended.
IdleCycle ==
    /\ rest > 0
    /\ Cycle("idle", "NONE", 0)
    /\ rest' = rest - 1
    /\ UNCHANGED <<test, step, left, taking, saved, buffer, reported, gap, past>>

\* The write strobe with DLAB resets the divider at once, which raises a low
\* baudout.
LoadTick ==
    /\ Running /\ rest = 0 /\ ~edge /\ baud = 0 /\ baud_load(Instr.op)
    /\ edge' = TRUE /\ baud' = 1 /\ counter' = 1
    /\ UNCHANGED <<txVars, rxVars, hwVars, cpuVars, ghosts>>

Finished == ~Running /\ UNCHANGED driverVars

DriverInit ==
    /\ lcr = NoLine /\ thr = << >> /\ tx_junk = UART_EOM
    /\ tx_fsm = "IDLE" /\ next_tx_fsm = "IDLE" /\ count_ticks = 0 /\ count_bits = 0
    /\ tsr = UART_EOM
    /\ rx_fsm = "IDLE" /\ next_rx_fsm = "IDLE" /\ rx_ticks = TICKS - 1 /\ rx_bits = 0
    /\ s0 = 0 /\ s1 = 0 /\ s2 = 0 /\ rsr_data = UART_EOM /\ parity_bit = 0
    /\ rxf = << >> /\ fcr = [fifoen |-> FALSE, rxclr |-> FALSE, txclr |-> FALSE]
    /\ dlab = FALSE /\ divisor = 0
    /\ lsr = [DR |-> FALSE, OE |-> FALSE, TF |-> TRUE, TE |-> TRUE]
    /\ post_lsr_rd = FALSE /\ rx_doned = FALSE /\ rx_done_set = FALSE /\ tx_pulled = FALSE
    /\ counter = 1 /\ baud = 1 /\ edge = FALSE
    /\ test = 1 /\ step = 1 /\ left = 0 /\ taking = FALSE
    /\ saved = LcrVal(FALSE, NoLine) /\ buffer = << >> /\ reported = FALSE
    /\ gap \in Gaps /\ rest = 0 /\ past \in Past
    /\ owed = << >> /\ harmed = FALSE /\ skipped = FALSE

DriverNext == \/ BaudTick \/ LoadTick \/ WriteRegister \/ RestoreLcr \/ ReadRegister
              \/ PollStatus \/ WriteData \/ ReadData \/ CheckData \/ IdleCycle \/ Finished

DriverSpec == DriverInit /\ [][DriverNext]_driverVars
-----------------------------------------------------------------------------
(* Properties *)

\* The FIFOs, registers and counters of the UART stay within their widths.
DriverTypeOK ==
    /\ RxTypeOK
    /\ Len(thr) <= FIFO_DEPTH /\ Len(rxf) <= FIFO_DEPTH
    /\ divisor \in 0 .. 65535 /\ counter \in 0 .. 65535 /\ baud \in Bit
    /\ tx_fsm \in TxStates /\ count_ticks \in 0 .. TICKS - 1 /\ count_bits \in 0 .. 7
    /\ test \in 1 .. Len(main) + 1 /\ left \in 0 .. TIMEOUT /\ rest \in 0 .. gap

\* The test program reports an error only when the byte behind its data, which
\* it reads without having set it, is not zero: with the timing of the
\* simulation all its expectations are right, also that of one character more
\* than the FIFO holds, for which a place must become free during the last
\* stop bit (uart_tb.cpp:114, 139, 190).
NoFalseReport == reported => past # UART_EOM

\* The driver never loses a byte on the way out: each one it is given is
\* accepted, though set_baud_rate and get_divisor change the word length and
\* reset the divider while stop bits are on the line, and reaches the receiver
\* as the line settings of its own cut it, in order and without error
\* (uart_driver.cpp:18, 29, 109).
SentIntact == ~harmed /\ ~skipped

\* No character is being sent or judged when the line settings change
\* (uart_driver.cpp:23, 31; uart_tb.cpp:25): TEMT alone would not do.
SettledLine ==
    [][lcr' # lcr => /\ thr = << >> /\ tsr_empty
                     /\ (rx_fsm = "IDLE" \/ rx_ticks > TICK_SAMPLE_D)]_driverVars
=============================================================================
