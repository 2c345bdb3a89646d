-------------------------- MODULE RiscvBenchProofs --------------------------
(***************************************************************************)
(* Theorems about the environment of the RISC-V testbench, for every       *)
(* instruction set, every content of the queues and whatever the processor *)
(* shows on the bus at any moment: its types, its time limit, its end and  *)
(* its verdict.                                                            *)
(***************************************************************************)
EXTENDS RiscvBench, SequenceTheorems, FiniteSetTheorems, TLAPS

\* The lengths and members of what forwarding leaves of a queue.
LEMMA FromQueue ==
    ASSUME NEW S, NEW queue \in Seq(S), NEW phase \in Nat
    PROVE  From(queue, phase) \in Seq(S) /\ Len(From(queue, phase)) <= Len(queue)
<1>. DEFINE earlier == {j \in 1 .. Len(queue) : \A n \in 1 .. j : queue[n].test_id # phase}
            c == Cardinality(earlier)
<1>1. IsFiniteSet(1 .. Len(queue))
  BY FS_Interval, Len(queue) \in Int, 1 \in Int
<1>2. earlier \subseteq 1 .. Len(queue)
  OBVIOUS
<1>3. c \in Nat
  BY <1>1, <1>2, FS_Subset, FS_CardinalityType
<1>. HIDE DEF c, earlier
<1>4. \A i \in (c + 1) .. Len(queue) : queue[i] \in S
  BY <1>3
<1>5. /\ SubSeq(queue, c + 1, Len(queue)) \in Seq(S)
      /\ Len(SubSeq(queue, c + 1, Len(queue)))
           = IF c + 1 <= Len(queue) THEN Len(queue) - (c + 1) + 1 ELSE 0
  BY <1>3, <1>4, SubSeqProperties
<1>6. From(queue, phase) = SubSeq(queue, c + 1, Len(queue))
  BY DEF From, c, earlier
<1>. QED
  BY <1>3, <1>5, <1>6

\* What is left of the commands after a phase of k.
LEMMA RestOfCommands ==
    ASSUME NEW S, NEW s \in Seq(S), NEW k \in 1 .. Len(s)
    PROVE  /\ SubSeq(s, k + 1, Len(s)) \in Seq(S)
           /\ Len(SubSeq(s, k + 1, Len(s))) < Len(s)
<1>1. \A i \in (k + 1) .. Len(s) : s[i] \in S
  OBVIOUS
<1>2. /\ SubSeq(s, k + 1, Len(s)) \in Seq(S)
      /\ Len(SubSeq(s, k + 1, Len(s))) = IF k + 1 <= Len(s) THEN Len(s) - (k + 1) + 1 ELSE 0
  BY <1>1, SubSeqProperties
<1>. QED
  BY <1>2

\* The number of commands of a phase is a number.
LEMMA CommandsCounted ==
    ASSUME NEW k \in Nat
    PROVE  Cardinality({j \in 1 .. k : sqr[j] # ZeroCmd}) \in Nat
<1>1. IsFiniteSet(1 .. k)
  BY FS_Interval, k \in Int, 1 \in Int
<1>. QED
  BY <1>1, FS_Subset, FS_CardinalityType

-----------------------------------------------------------------------------
(* What the actions do, one case at a time *)

\* A phase begins: the time limit allows three clocks more than it has commands.
LEMMA PhaseStarts ==
    ASSUME TypeOK, NEW k \in Nat, StartPhase(k)
    PROVE  /\ cmd_count' \in Nat
           /\ timestamp' = timestamp + 80
           /\ max_time' = timestamp' + 80 * cmd_count' + 240
           /\ sqr' \in Seq(Commands) /\ Len(sqr') < Len(sqr)
<1>1. cmd_count' \in Nat
  BY CommandsCounted DEF StartPhase
<1>2. timestamp' = timestamp + 80
  BY DEF StartPhase, CLK_PHASE, TypeOK
<1>3. max_time' = timestamp + CLK_PHASE * 2 + CLK_PHASE * 2 * (cmd_count' + 3)
  BY DEF StartPhase
<1>4. max_time' = timestamp' + 80 * cmd_count' + 240
  BY <1>1, <1>2, <1>3 DEF CLK_PHASE, TypeOK
<1>5. sqr' \in Seq(Commands) /\ Len(sqr') < Len(sqr)
  BY RestOfCommands DEF StartPhase, PhaseLen, TypeOK
<1>. QED
  BY <1>1, <1>2, <1>4, <1>5

\* The driver drives, drives nothing, or finds the time over.
LEMMA DriverCases ==
    ASSUME TypeOK, NEW b \in BusStates, DriverMain(b)
    PROVE  \/ /\ timestamp >= max_time /\ at' = "phase" /\ phase_num' = phase_num + 1
              /\ UNCHANGED <<clk, timestamp, pins, drv_fifo, history>>
           \/ /\ timestamp < max_time /\ at' = "monitor" /\ clk' = 1
              /\ timestamp' = DriveTime /\ UNCHANGED <<phase_num, pins, drv_fifo, history>>
           \/ /\ timestamp < max_time /\ at' = "monitor" /\ clk' = 1
              /\ timestamp' = DriveTime + 1 /\ UNCHANGED phase_num
              /\ drv_fifo # << >> /\ drv_fifo' = Tail(drv_fifo)
              /\ pins' = [rd_data |-> Head(drv_fifo).rd_data, irq |-> Head(drv_fifo).irq]
              /\ history' = [history EXCEPT !.driven = @ + 1]
<1>1. DriveTime \in Int
  <2>1. timestamp % 40 \in 0 .. 39
    BY DEF TypeOK
  <2>. QED
    BY <2>1 DEF DriveTime, CLK_PHASE, SETUP_TIME, TypeOK
<1>2. CASE timestamp >= max_time
  <2>1. ~(timestamp < max_time)
    BY <1>2 DEF TypeOK
  <2>. QED
    BY <1>2, <2>1 DEF DriverMain
<1>3. CASE timestamp < max_time
  <2>1. ~(timestamp >= max_time)
    BY <1>3 DEF TypeOK
  <2>2. at' = "monitor" /\ clk' = 1 /\ UNCHANGED phase_num
    BY <2>1 DEF DriverMain
  <2>3. timestamp' = DriveTime + (IF Drives(b) THEN 1 ELSE 0)
    BY <2>1 DEF DriverMain
  <2>4. CASE Drives(b)
    <3>1. timestamp' = DriveTime + 1
      BY <2>3, <2>4
    <3>2. drv_fifo # << >>
      BY <2>4 DEF Drives
    <3>3. /\ drv_fifo' = Tail(drv_fifo)
          /\ pins' = [rd_data |-> Head(drv_fifo).rd_data, irq |-> Head(drv_fifo).irq]
          /\ history' = [history EXCEPT !.driven = @ + 1]
      BY <1>3, <2>4 DEF DriverMain
    <3>. QED
      BY <1>3, <2>2, <3>1, <3>2, <3>3
  <2>5. CASE ~Drives(b)
    <3>1. timestamp' = DriveTime
      BY <1>1, <2>3, <2>5
    <3>2. UNCHANGED <<pins, drv_fifo, history>>
      BY <2>5 DEF DriverMain
    <3>. QED
      BY <1>3, <2>2, <3>1, <3>2
  <2>. QED
    BY <2>4, <2>5
<1>4. timestamp >= max_time \/ timestamp < max_time
  BY DEF TypeOK
<1>. QED
  BY <1>2, <1>3, <1>4

\* The monitor sees a transaction or none.
LEMMA MonitorCases ==
    ASSUME TypeOK, NEW b \in BusStates, MonitorMain(b)
    PROVE  \/ UNCHANGED <<rx_fifo, history>>
           \/ \E sample \in Samples :
                /\ rx_fifo' = Append(rx_fifo, sample)
                /\ history' = [history EXCEPT !.seen = Append(@, sample)]
<1>. DEFINE sample == [wr |-> b.wr, addr |-> b.addr, wr_data |-> b.wr_data,
                       rd_data |-> b.rd_data]
<1>1. sample \in Samples
  BY DEF BusStates, Samples
<1>2. CASE b.req = 1
  <2>1. /\ rx_fifo' = Append(rx_fifo, sample)
        /\ history' = [history EXCEPT !.seen = Append(@, sample)]
    BY <1>2 DEF MonitorMain
  <2>. QED
    BY <1>1, <2>1
<1>3. CASE b.req # 1
  BY <1>3 DEF MonitorMain
<1>. QED
  BY <1>2, <1>3

\* Where the times are within a clock.
LEMMA Times ==
    ASSUME TypeOK
    PROVE  /\ DriveTime \in Nat /\ MonitorTime \in Nat
           /\ MonitorTime = timestamp - (timestamp % 40) + 76
           /\ clk = 0 /\ timestamp % 40 = 36 => DriveTime = timestamp + 8
           /\ clk = 1 => DriveTime = timestamp
<1>1. timestamp % 40 \in 0 .. 39
  BY DEF TypeOK
<1>. QED
  BY <1>1 DEF DriveTime, MonitorTime, CLK_PHASE, SETUP_TIME, TypeOK

\* An iteration without an error leads to the next one or ends the phase.
LEMMA ContinueCases ==
    ASSUME TypeOK, NEW b, Continue(b)
    PROVE  at' \in {"phase", "drive"} /\ cmd_count' \in Nat /\ phase_num' \in Nat
<1>1. cmd_count \in Nat /\ phase_num \in Nat
  BY DEF TypeOK
<1>. QED
  BY <1>1 DEF Continue

-----------------------------------------------------------------------------
(* Types *)

LEMMA BenchInitType == BenchInit => TypeOK
BY BenchAssumption DEF BenchInit, TypeOK, Bit, Samples

LEMMA BenchNextType == TypeOK /\ [BenchNext]_benchVars => TypeOK'
<1>. SUFFICES ASSUME TypeOK, [BenchNext]_benchVars PROVE TypeOK'
  OBVIOUS
<1>. USE BenchAssumption DEF TypeOK
<1>1. CASE StartTest
  BY <1>1 DEF StartTest
<1>2. ASSUME NEW k \in Nat, StartPhase(k) PROVE TypeOK'
  <2>1. /\ sqr' \in Seq(Commands) /\ cmd_count' \in Nat
        /\ timestamp' \in Nat /\ max_time' \in Nat
    BY <1>2, PhaseStarts
  <2>2. /\ at' = "drive"
        /\ pins' = [pins EXCEPT !.rd_data = 0]
        /\ UNCHANGED <<ref_fifo, drv_fifo, rx_fifo, phase_num, ref_count, res_count, err_count,
                       err_total, clk, abort, history>>
    BY <1>2 DEF StartPhase
  <2>. QED
    BY <2>1, <2>2
<1>3. ASSUME NEW b \in BusStates, DriverMain(b) PROVE TypeOK'
  <2>1. /\ drv_fifo # << >> => /\ Head(drv_fifo) \in Stimuli
                              /\ Tail(drv_fifo) \in Seq(Stimuli)
    BY HeadTailProperties
  <2>2. DriveTime \in Nat
    BY Times
  <2>3. /\ at' \in {"phase", "monitor"} /\ clk' \in Bit
        /\ phase_num' \in Nat /\ timestamp' \in Nat
        /\ drv_fifo' \in Seq(Stimuli) /\ pins' \in [rd_data : Words, irq : Bit]
        /\ history' \in [expected : Seq(Transactions), stimuli : Nat, seen : Seq(Samples),
                         driven : Nat]
    <3>1. CASE /\ timestamp >= max_time /\ at' = "phase" /\ phase_num' = phase_num + 1
               /\ UNCHANGED <<clk, timestamp, pins, drv_fifo, history>>
      BY <3>1
    <3>2. CASE /\ timestamp < max_time /\ at' = "monitor" /\ clk' = 1
               /\ timestamp' = DriveTime /\ UNCHANGED <<phase_num, pins, drv_fifo, history>>
      BY <3>2, <2>2 DEF Bit
    <3>3. CASE /\ timestamp < max_time /\ at' = "monitor" /\ clk' = 1
               /\ timestamp' = DriveTime + 1 /\ UNCHANGED phase_num
               /\ drv_fifo # << >> /\ drv_fifo' = Tail(drv_fifo)
               /\ pins' = [rd_data |-> Head(drv_fifo).rd_data, irq |-> Head(drv_fifo).irq]
               /\ history' = [history EXCEPT !.driven = @ + 1]
      <4>1. clk' \in Bit /\ timestamp' \in Nat
        <5>1. clk' = 1 /\ timestamp' = DriveTime + 1
          BY <3>3
        <5>. QED
          BY <5>1, <2>2 DEF Bit
      <4>2. drv_fifo' \in Seq(Stimuli) /\ pins' \in [rd_data : Words, irq : Bit]
        BY <3>3, <2>1 DEF Stimuli
      <4>3. history' \in [expected : Seq(Transactions), stimuli : Nat, seen : Seq(Samples),
                          driven : Nat]
        <5>1. history' = [history EXCEPT !.driven = @ + 1]
          BY <3>3
        <5>2. history.driven \in Nat
          OBVIOUS
        <5>3. history.driven + 1 \in Nat
          BY <5>2
        <5>4. history' = [expected |-> history.expected, stimuli |-> history.stimuli,
                          seen |-> history.seen, driven |-> history.driven + 1]
          BY <5>1
        <5>. QED
          BY <5>3, <5>4
      <4>. QED
        BY <3>3, <4>1, <4>2, <4>3
    <3>. QED
      BY <1>3, <3>1, <3>2, <3>3, DriverCases
  <2>. QED
    BY <1>3, <2>3 DEF DriverMain
<1>4. ASSUME NEW b \in BusStates, MonitorMain(b) PROVE TypeOK'
  <2>1. timestamp' \in Nat /\ clk' \in Bit
    BY <1>4, Times DEF MonitorMain, Bit
  <2>2. /\ rx_fifo' \in Seq(Samples)
        /\ history' \in [expected : Seq(Transactions), stimuli : Nat, seen : Seq(Samples),
                         driven : Nat]
    <3>1. CASE UNCHANGED <<rx_fifo, history>>
      BY <3>1
    <3>2. ASSUME NEW sample \in Samples,
                 rx_fifo' = Append(rx_fifo, sample),
                 history' = [history EXCEPT !.seen = Append(@, sample)]
          PROVE  /\ rx_fifo' \in Seq(Samples)
                 /\ history' \in [expected : Seq(Transactions), stimuli : Nat,
                                  seen : Seq(Samples), driven : Nat]
      <4>1. /\ Append(rx_fifo, sample) \in Seq(Samples)
            /\ Append(history.seen, sample) \in Seq(Samples)
        BY AppendProperties
      <4>. QED
        BY <3>2, <4>1
    <3>. QED
      BY <1>4, <3>1, <3>2, MonitorCases
  <2>. QED
    BY <1>4, <2>1, <2>2 DEF MonitorMain
<1>5. ASSUME NEW b \in BusStates, ScoreNothing(b) PROVE TypeOK'
  <2>1. /\ at' \in {"phase", "drive"} /\ cmd_count' \in Nat /\ phase_num' \in Nat
    BY <1>5, ContinueCases DEF ScoreNothing
  <2>2. UNCHANGED <<ref_fifo, rx_fifo, res_count, err_count, scoreOnly>>
    BY <1>5 DEF ScoreNothing
  <2>. QED
    BY <2>1, <2>2 DEF scoreOnly
<1>6. ASSUME NEW b \in BusStates, ScoreMatch(b) PROVE TypeOK'
  <2>1. /\ at' \in {"phase", "drive"} /\ cmd_count' \in Nat /\ phase_num' \in Nat
    BY <1>6, ContinueCases DEF ScoreMatch
  <2>2. Tail(ref_fifo) \in Seq(Transactions) /\ Tail(rx_fifo) \in Seq(Samples)
    BY <1>6, HeadTailProperties DEF ScoreMatch
  <2>3. /\ rx_fifo' = Tail(rx_fifo) /\ ref_fifo' = Tail(ref_fifo)
        /\ res_count' = res_count + 1
        /\ UNCHANGED <<err_count, scoreOnly>>
    BY <1>6 DEF ScoreMatch
  <2>. QED
    BY <2>1, <2>2, <2>3 DEF scoreOnly
<1>7. CASE ScoreUnexpected
  BY <1>7 DEF ScoreUnexpected, scoreOnly
<1>8. CASE ScoreMismatch
  BY <1>8, HeadTailProperties DEF ScoreMismatch, scoreOnly
<1>9. CASE PhaseFailed
  <2>1. timestamp' \in Nat
    BY <1>9 DEF PhaseFailed, CLK_PHASE
  <2>2. /\ sqr' \in Seq(Commands) /\ ref_fifo' \in Seq(Transactions)
        /\ drv_fifo' \in Seq(Stimuli)
        /\ res_count' \in Nat /\ phase_num' \in Nat
    <3>1. CASE abort = 1
      BY <1>9, <3>1 DEF PhaseFailed
    <3>2. CASE abort # 1
      <4>1. phase_num + 1 \in Nat
        OBVIOUS
      <4>2. /\ From(ref_fifo, phase_num + 1) \in Seq(Transactions)
            /\ Len(From(ref_fifo, phase_num + 1)) <= Len(ref_fifo)
            /\ From(drv_fifo, phase_num + 1) \in Seq(Stimuli)
        BY <4>1, FromQueue
      <4>. QED
        BY <1>9, <3>2, <4>1, <4>2 DEF PhaseFailed
    <3>. QED
      BY <3>1, <3>2
  <2>. QED
    BY <1>9, <2>1, <2>2 DEF PhaseFailed
<1>10. CASE EndTest
  BY <1>10 DEF EndTest, One
<1>11. CASE UNCHANGED benchVars
  BY <1>11 DEF benchVars
<1>. QED
  BY <1>1, <1>2, <1>3, <1>4, <1>5, <1>6, <1>7, <1>8, <1>9, <1>10, <1>11 DEF BenchNext

\* Every queue, counter and pin of the environment keeps its type.
THEOREM BenchTypeCorrect == BenchSpec => []TypeOK
BY BenchInitType, BenchNextType, PTL DEF BenchSpec

-----------------------------------------------------------------------------
(* Time *)

\* Where in the clock each component stands, and how much of the time limit the
\* commands still to come can take: 80 units each.
TimeInv ==
    /\ at = "monitor" => /\ clk = 1 /\ timestamp % 40 \in {0, 1, 4, 5}
                         /\ timestamp - (timestamp % 40) + 76 + 80 * (cmd_count + 2) <= max_time
    /\ at # "monitor" => /\ clk = 0 => timestamp % 40 = 36
                         /\ clk = 1 => timestamp % 40 = 0
    /\ at = "drive" => timestamp + 80 * (cmd_count + 3) <= max_time
    /\ at = "score" => timestamp + 80 * (cmd_count + 2) <= max_time

\* The times of a driver that starts before the edge, or at it.
LEMMA DriverTimes ==
    ASSUME NEW t \in Nat
    PROVE  /\ t % 40 = 36 => /\ (t + 8) % 40 = 4 /\ (t + 9) % 40 = 5
           /\ t % 40 = 0 => (t + 1) % 40 = 1
           /\ (t + 80) % 40 = t % 40
           /\ t % 40 \in 0 .. 39
           /\ (t - (t % 40) + 76) % 40 = 36
           /\ t % 80 = 76 => t % 40 = 36
OBVIOUS

LEMMA BenchInitTime == BenchInit => TimeInv
<1>. SUFFICES ASSUME BenchInit PROVE TimeInv
  OBVIOUS
<1>1. at = "begin"
  BY DEF BenchInit
<1>2. CASE timestamp = 0 /\ clk = 1
  <2>1. timestamp % 40 = 0
    BY <1>2
  <2>. QED
    BY <1>1, <1>2, <2>1 DEF TimeInv
<1>3. CASE timestamp \in Nat /\ timestamp % 80 = 76 /\ clk = 0
  BY <1>1, <1>3, DriverTimes DEF TimeInv
<1>. QED
  BY <1>2, <1>3 DEF BenchInit

LEMMA BenchNextTime == TypeOK /\ TimeInv /\ [BenchNext]_benchVars => TimeInv'
<1>. SUFFICES ASSUME TypeOK, TimeInv, [BenchNext]_benchVars PROVE TimeInv'
  OBVIOUS
<1>0. /\ timestamp \in Nat /\ max_time \in Nat /\ cmd_count \in Nat /\ clk \in {0, 1}
      /\ timestamp % 40 \in 0 .. 39 /\ (timestamp + 80) % 40 = timestamp % 40
  BY DriverTimes DEF TypeOK, Bit
<1>1. CASE StartTest
  BY <1>1 DEF StartTest, TimeInv
<1>2. ASSUME NEW k \in Nat, StartPhase(k) PROVE TimeInv'
  <2>1. /\ cmd_count' \in Nat /\ timestamp' = timestamp + 80
        /\ max_time' = timestamp' + 80 * cmd_count' + 240
    BY <1>2, PhaseStarts
  <2>2. at = "phase" /\ at' = "drive" /\ clk' = clk
    BY <1>2 DEF StartPhase
  <2>3. timestamp' + 80 * (cmd_count' + 3) <= max_time'
    <3>1. \A c, t \in Nat : t + 80 * (c + 3) <= t + 80 * c + 240
      OBVIOUS
    <3>2. timestamp' \in Nat
      BY <1>0, <2>1
    <3>. QED
      BY <2>1, <3>1, <3>2
  <2>4. timestamp' % 40 = timestamp % 40
    BY <1>0, <2>1
  <2>. QED
    BY <2>2, <2>3, <2>4 DEF TimeInv
<1>3. ASSUME NEW b \in BusStates, DriverMain(b) PROVE TimeInv'
  <2>1. at = "drive" /\ max_time' = max_time /\ cmd_count' = cmd_count
    BY <1>3 DEF DriverMain
  <2>2. timestamp < max_time
    BY <1>0, <2>1 DEF TimeInv
  <2>3. /\ at' = "monitor" /\ clk' = 1
        /\ timestamp' = DriveTime \/ timestamp' = DriveTime + 1
    BY <1>0, <1>3, <2>2, DriverCases
  <2>4. CASE clk = 0
    <3>1. timestamp % 40 = 36 /\ DriveTime = timestamp + 8
      BY <2>1, <2>4, Times DEF TimeInv
    <3>2. /\ timestamp' = timestamp + 8 \/ timestamp' = timestamp + 9
          /\ timestamp' % 40 = timestamp' - timestamp - 4
      BY <1>0, <2>3, <3>1, DriverTimes
    <3>. QED
      BY <1>0, <2>1, <2>3, <3>2 DEF TimeInv
  <2>5. CASE clk = 1
    <3>1. timestamp % 40 = 0 /\ DriveTime = timestamp
      BY <2>1, <2>5, Times DEF TimeInv
    <3>2. /\ timestamp' = timestamp \/ timestamp' = timestamp + 1
          /\ timestamp' % 40 = timestamp' - timestamp
      BY <1>0, <2>3, <3>1, DriverTimes
    <3>. QED
      BY <1>0, <2>1, <2>3, <3>2 DEF TimeInv
  <2>. QED
    BY <1>0, <2>4, <2>5
<1>4. ASSUME NEW b \in BusStates, MonitorMain(b) PROVE TimeInv'
  <2>1. /\ at = "monitor" /\ at' = "score" /\ clk' = 0 /\ timestamp' = MonitorTime
        /\ max_time' = max_time /\ cmd_count' = cmd_count
    BY <1>4 DEF MonitorMain
  <2>2. timestamp' = timestamp - (timestamp % 40) + 76
    BY <2>1, Times
  <2>3. timestamp' % 40 = 36
    BY <1>0, <2>2, DriverTimes
  <2>. QED
    BY <1>0, <2>1, <2>2, <2>3 DEF TimeInv
<1>5. ASSUME NEW b \in BusStates, ScoreNothing(b) \/ ScoreMatch(b) PROVE TimeInv'
  <2>1. at = "score" /\ Continue(b) /\ UNCHANGED <<timestamp, max_time, clk>>
    BY <1>5 DEF ScoreNothing, ScoreMatch, scoreOnly
  <2>2. CASE b.stop \/ cmd_count = 0
    <3>1. at' = "phase"
      BY <2>1, <2>2 DEF Continue
    <3>. QED
      BY <2>1, <3>1 DEF TimeInv
  <2>3. CASE ~(b.stop \/ cmd_count = 0)
    <3>1. at' = "drive" /\ cmd_count' = cmd_count - 1
      BY <2>1, <2>3 DEF Continue
    <3>. QED
      BY <1>0, <2>1, <3>1 DEF TimeInv
  <2>. QED
    BY <2>2, <2>3
<1>6. CASE ScoreUnexpected \/ ScoreMismatch
  BY <1>6 DEF ScoreUnexpected, ScoreMismatch, scoreOnly, TimeInv
<1>7. CASE PhaseFailed
  <2>1. /\ at = "failed" /\ at' = "phase" /\ timestamp' = timestamp + 80 /\ clk' = clk
    BY <1>0, <1>7 DEF PhaseFailed, CLK_PHASE
  <2>. QED
    BY <1>0, <2>1 DEF TimeInv
<1>8. CASE EndTest
  BY <1>8 DEF EndTest, TimeInv
<1>9. CASE UNCHANGED benchVars
  BY <1>9 DEF benchVars, TimeInv
<1>. QED
  BY <1>1, <1>2, <1>3, <1>4, <1>5, <1>6, <1>7, <1>8, <1>9 DEF BenchNext

\* No phase is ended by its time limit.
THEOREM BenchNeverTimesOut == BenchSpec => []NeverTimesOut
<1>1. TypeOK /\ TimeInv => NeverTimesOut
  BY DEF TypeOK, TimeInv, NeverTimesOut
<1>. QED
  BY <1>1, BenchInitType, BenchNextType, BenchInitTime, BenchNextTime, PTL DEF BenchSpec

-----------------------------------------------------------------------------
(* Termination *)

LEMMA BenchStepNearer == TypeOK /\ [BenchNext]_benchVars => [Nearer]_benchVars
<1>. SUFFICES ASSUME TypeOK, BenchNext PROVE Nearer
  OBVIOUS
<1>. USE DEF Rank
<1>0. Len(sqr) \in Nat /\ cmd_count \in Nat
  BY DEF TypeOK
<1>1. CASE StartTest
  BY <1>1 DEF StartTest, Nearer
<1>2. ASSUME NEW k \in Nat, StartPhase(k) PROVE Nearer
  BY <1>2, PhaseStarts DEF Nearer
<1>3. ASSUME NEW b \in BusStates, DriverMain(b) PROVE Nearer
  <2>1. /\ at = "drive" /\ at' \in {"phase", "monitor"}
        /\ sqr' = sqr /\ cmd_count' = cmd_count
    BY <1>3 DEF DriverMain
  <2>. QED
    BY <1>0, <2>1 DEF Nearer, InPhase
<1>4. ASSUME NEW b \in BusStates, MonitorMain(b) PROVE Nearer
  <2>1. /\ at = "monitor" /\ at' = "score" /\ sqr' = sqr /\ cmd_count' = cmd_count
    BY <1>4 DEF MonitorMain
  <2>. QED
    BY <1>0, <2>1 DEF Nearer, InPhase
<1>5. ASSUME NEW b \in BusStates, ScoreNothing(b) \/ ScoreMatch(b) PROVE Nearer
  <2>1. at = "score" /\ Continue(b) /\ sqr' = sqr
    BY <1>5 DEF ScoreNothing, ScoreMatch, scoreOnly
  <2>2. \/ at' = "phase"
        \/ at' = "drive" /\ cmd_count' = cmd_count - 1
    BY <2>1 DEF Continue
  <2>. QED
    BY <1>0, <2>1, <2>2 DEF Nearer, InPhase
<1>6. CASE ScoreUnexpected \/ ScoreMismatch
  <2>1. at = "score" /\ at' = "failed" /\ sqr' = sqr /\ cmd_count' = cmd_count
    BY <1>6 DEF ScoreUnexpected, ScoreMismatch, scoreOnly
  <2>. QED
    BY <1>0, <2>1 DEF Nearer, InPhase
<1>7. CASE PhaseFailed
  <2>1. at = "failed" /\ at' = "phase" /\ (sqr' = << >> \/ sqr' = sqr)
    BY <1>7 DEF PhaseFailed
  <2>2. Len(sqr') = Len(sqr) \/ Len(sqr') < Len(sqr)
    BY <1>0, <2>1
  <2>. QED
    BY <2>1, <2>2 DEF Nearer
<1>8. CASE EndTest
  BY <1>8 DEF EndTest, Nearer
<1>. QED
  BY <1>1, <1>2, <1>3, <1>4, <1>5, <1>6, <1>7, <1>8 DEF BenchNext

\* Every step brings a test nearer to its end.
THEOREM BenchEnds == BenchSpec => Ends
<1>. QED
  BY BenchInitType, BenchNextType, BenchStepNearer, PTL DEF BenchSpec, Ends

-----------------------------------------------------------------------------
(* The verdict: the scoreboard reports no error exactly when the bus showed  *)
(* what was expected.                                                        *)

expected == history.expected
seen == history.seen

\* No error so far: the expected transactions are those matched and those of
\* the queue, the seen ones are those matched and the one about to be compared.
Matched ==
    /\ err_count = 0
    /\ at # "failed"
    /\ res_count + Len(ref_fifo) = Len(expected)
    /\ \A j \in 1 .. Len(ref_fifo) : ref_fifo[j] = expected[res_count + j]
    /\ Len(seen) = res_count + Len(rx_fifo)
    /\ rx_fifo # << >> => at = "score" /\ Len(rx_fifo) = 1 /\ rx_fifo[1] = seen[Len(seen)]
    /\ \A j \in 1 .. res_count : Accepts(expected[j], seen[j])
    /\ history.driven + Len(drv_fifo) = history.stimuli

\* An error was counted, and there was one to count.
Mismatched ==
    /\ err_count > 0
    /\ \E j \in 1 .. Len(seen) : j <= Len(expected) /\ ~Accepts(expected[j], seen[j])

\* A transaction came when none was expected, and will be found in the queue.
Unexpected ==
    /\ ref_fifo = << >> /\ rx_fifo # << >>
    /\ Len(seen) > Len(expected)

VerdictInv ==
    /\ at # "done" => err_total = 0 /\ (Matched \/ Mismatched \/ Unexpected)
    /\ at = "begin" => Matched /\ res_count = 0
    /\ at # "begin" => ref_count = Len(expected)
    /\ VerdictSound

\* The parts of the type invariant the argument rests on.
LEMMA Lengths ==
    ASSUME TypeOK
    PROVE  /\ Len(ref_fifo) \in Nat /\ Len(rx_fifo) \in Nat /\ Len(drv_fifo) \in Nat
           /\ Len(expected) \in Nat /\ Len(seen) \in Nat
           /\ expected \in Seq(Transactions) /\ seen \in Seq(Samples)
           /\ res_count \in Nat /\ ref_count \in Nat /\ err_count \in Nat /\ err_total \in Nat
           /\ history.driven \in Nat /\ history.stimuli \in Nat
           /\ (Len(drv_fifo) = 0 <=> drv_fifo = << >>)
           /\ (Len(ref_fifo) = 0 <=> ref_fifo = << >>)
           /\ (Len(rx_fifo) = 0 <=> rx_fifo = << >>)
<1>1. /\ ref_fifo \in Seq(Transactions) /\ rx_fifo \in Seq(Samples)
      /\ drv_fifo \in Seq(Stimuli)
      /\ history \in [expected : Seq(Transactions), stimuli : Nat, seen : Seq(Samples),
                      driven : Nat]
      /\ res_count \in Nat /\ ref_count \in Nat /\ err_count \in Nat /\ err_total \in Nat
  BY DEF TypeOK
<1>2. /\ expected \in Seq(Transactions) /\ seen \in Seq(Samples)
      /\ history.driven \in Nat /\ history.stimuli \in Nat
  BY <1>1 DEF expected, seen
<1>. QED
  BY <1>1, <1>2, EmptySeq, LenProperties

\* The heads of the queues when nothing has failed.
LEMMA HeadsCompared ==
    ASSUME TypeOK, Matched, rx_fifo # << >>, ref_fifo # << >>
    PROVE  /\ Head(ref_fifo) = expected[res_count + 1]
           /\ Head(rx_fifo) = seen[res_count + 1]
           /\ res_count + 1 = Len(seen) /\ res_count + 1 <= Len(expected)
           /\ Len(Tail(ref_fifo)) = Len(ref_fifo) - 1
           /\ \A j \in 1 .. Len(Tail(ref_fifo)) : Tail(ref_fifo)[j] = ref_fifo[j + 1]
           /\ Tail(rx_fifo) = << >>
<1>1. ref_fifo \in Seq(Transactions) /\ rx_fifo \in Seq(Samples)
  BY DEF TypeOK
<1>2. /\ Len(ref_fifo) > 0 /\ Len(rx_fifo) = 1 /\ rx_fifo[1] = seen[Len(seen)]
      /\ Len(seen) = res_count + 1
      /\ res_count + Len(ref_fifo) = Len(expected)
      /\ ref_fifo[1] = expected[res_count + 1]
  <2>1. Len(ref_fifo) > 0
    BY Lengths
  <2>2. /\ Len(rx_fifo) = 1 /\ rx_fifo[1] = seen[Len(seen)]
        /\ Len(seen) = res_count + Len(rx_fifo) /\ res_count + Len(ref_fifo) = Len(expected)
    BY DEF Matched
  <2>3. ref_fifo[1] = expected[res_count + 1]
    BY <2>1, Lengths DEF Matched
  <2>. QED
    BY <2>1, <2>2, <2>3
<1>3. /\ Head(ref_fifo) = ref_fifo[1] /\ Head(rx_fifo) = rx_fifo[1]
      /\ Tail(ref_fifo) \in Seq(Transactions) /\ Len(Tail(ref_fifo)) = Len(ref_fifo) - 1
      /\ \A j \in 1 .. Len(Tail(ref_fifo)) : Tail(ref_fifo)[j] = ref_fifo[j + 1]
      /\ Tail(rx_fifo) \in Seq(Samples) /\ Len(Tail(rx_fifo)) = 0
  BY <1>1, <1>2, HeadTailProperties
<1>4. Tail(rx_fifo) = << >>
  BY <1>3, EmptySeq
<1>. QED
  BY <1>2, <1>3, <1>4, Lengths

-----------------------------------------------------------------------------
(* The steps that leave the comparison alone *)

LEMMA NothingCompared ==
    ASSUME VerdictInv, at \notin {"begin", "done"}, at' \notin {"begin", "done", "failed"},
           at = "score" => rx_fifo = << >>,
           UNCHANGED <<ref_fifo, drv_fifo, rx_fifo, res_count, ref_count, err_count, err_total,
                       history>>
    PROVE  VerdictInv'
<1>1. at # "done" /\ at' # "done" /\ at' # "begin" /\ at # "begin" /\ at' # "failed"
  OBVIOUS
<1>2. Matched => Matched'
  BY <1>1 DEF Matched, expected, seen
<1>3. Mismatched => Mismatched'
  BY DEF Mismatched, expected, seen
<1>4. Unexpected => Unexpected'
  BY DEF Unexpected, expected, seen
<1>5. ref_count' = Len(expected')
  BY <1>1 DEF VerdictInv, expected
<1>6. err_total' = 0 /\ (Matched' \/ Mismatched' \/ Unexpected')
  BY <1>1, <1>2, <1>3, <1>4 DEF VerdictInv
<1>. QED
  BY <1>1, <1>5, <1>6 DEF VerdictInv, VerdictSound

\* The driver counts what it takes from its queue.
LEMMA StimulusCounted ==
    ASSUME TypeOK, VerdictInv, NEW b \in BusStates, DriverMain(b)
    PROVE  VerdictInv'
<1>1. /\ at = "drive" /\ at' \in {"phase", "monitor"}
      /\ UNCHANGED <<ref_fifo, rx_fifo, res_count, ref_count, err_count, err_total>>
  BY DEF DriverMain
<1>2. expected' = expected /\ seen' = seen
      /\ history'.driven + Len(drv_fifo') = history.driven + Len(drv_fifo)
      /\ history'.stimuli = history.stimuli
  <2>1. CASE UNCHANGED <<drv_fifo, history>>
    BY <2>1 DEF expected, seen
  <2>2. CASE /\ drv_fifo # << >> /\ drv_fifo' = Tail(drv_fifo)
             /\ history' = [history EXCEPT !.driven = @ + 1]
    <3>1. Len(Tail(drv_fifo)) = Len(drv_fifo) - 1
      BY <2>2, HeadTailProperties DEF TypeOK
    <3>2. history' = [expected |-> history.expected, stimuli |-> history.stimuli,
                      seen |-> history.seen, driven |-> history.driven + 1]
      BY <2>2 DEF TypeOK
    <3>. QED
      BY <2>2, <3>1, <3>2, Lengths DEF expected, seen
  <2>. QED
    BY <2>1, <2>2, DriverCases
<1>3. Matched => Matched'
  BY <1>1, <1>2 DEF Matched
<1>4. Mismatched => Mismatched'
  BY <1>1, <1>2 DEF Mismatched
<1>5. Unexpected => Unexpected'
  BY <1>1, <1>2 DEF Unexpected
<1>6. err_total' = 0 /\ (Matched' \/ Mismatched' \/ Unexpected')
  BY <1>1, <1>3, <1>4, <1>5 DEF VerdictInv
<1>7. ref_count' = Len(expected')
  BY <1>1, <1>2 DEF VerdictInv
<1>. QED
  BY <1>1, <1>6, <1>7 DEF VerdictInv, VerdictSound

\* The monitor notes what it puts in the queue.
LEMMA TransactionSeen ==
    ASSUME TypeOK, VerdictInv, NEW b \in BusStates, MonitorMain(b)
    PROVE  VerdictInv'
<1>1. /\ at = "monitor" /\ at' = "score"
      /\ UNCHANGED <<ref_fifo, drv_fifo, res_count, ref_count, err_count, err_total>>
  BY DEF MonitorMain
<1>2. CASE UNCHANGED <<rx_fifo, history>>
  <2>1. expected' = expected /\ seen' = seen
    BY <1>2 DEF expected, seen
  <2>2. /\ Matched => Matched'
        /\ Mismatched => Mismatched'
        /\ Unexpected => Unexpected'
    <3>1. Matched => Matched'
      BY <1>1, <1>2, <2>1 DEF Matched
    <3>2. Mismatched => Mismatched'
      BY <1>1, <2>1 DEF Mismatched
    <3>3. Unexpected => Unexpected'
      BY <1>1, <1>2, <2>1 DEF Unexpected
    <3>. QED
      BY <3>1, <3>2, <3>3
  <2>. QED
    BY <1>1, <2>1, <2>2 DEF VerdictInv, VerdictSound
<1>3. ASSUME NEW sample \in Samples,
             rx_fifo' = Append(rx_fifo, sample),
             history' = [history EXCEPT !.seen = Append(@, sample)]
      PROVE  VerdictInv'
  <2>1. /\ expected' = expected /\ seen' = Append(seen, sample)
        /\ history'.driven = history.driven /\ history'.stimuli = history.stimuli
    BY <1>3 DEF expected, seen, TypeOK
  <2>2. /\ Len(seen') = Len(seen) + 1 /\ seen'[Len(seen) + 1] = sample
        /\ \A j \in 1 .. Len(seen) : seen'[j] = seen[j]
        /\ Len(rx_fifo') = Len(rx_fifo) + 1 /\ rx_fifo'[Len(rx_fifo) + 1] = sample
        /\ rx_fifo' # << >>
    <3>1. seen \in Seq(Samples) /\ rx_fifo \in Seq(Samples)
      BY Lengths DEF TypeOK
    <3>2. Len(rx_fifo') = Len(rx_fifo) + 1 /\ Len(rx_fifo) \in Nat
      BY <1>3, <3>1
    <3>. QED
      BY <1>3, <2>1, <3>1, <3>2, AppendProperties
  <2>3. Matched => Matched'
    <3>. SUFFICES ASSUME Matched PROVE Matched'
      OBVIOUS
    <3>1. rx_fifo = << >> /\ Len(rx_fifo) = 0 /\ Len(seen) = res_count
      BY <1>1, Lengths DEF Matched
    <3>2. Len(rx_fifo') = 1 /\ rx_fifo'[1] = sample /\ Len(seen') = res_count + 1
      BY <2>2, <3>1
    <3>3. rx_fifo'[1] = seen'[Len(seen')]
      BY <2>2, <3>1, <3>2
    <3>4. \A j \in 1 .. res_count : Accepts(expected[j], seen'[j])
      BY <2>2, <3>1 DEF Matched
    <3>5. /\ err_count = 0 /\ res_count + Len(ref_fifo) = Len(expected)
          /\ \A j \in 1 .. Len(ref_fifo) : ref_fifo[j] = expected[res_count + j]
          /\ history.driven + Len(drv_fifo) = history.stimuli
      BY DEF Matched
    <3>. QED
      BY <1>1, <2>1, <3>2, <3>3, <3>4, <3>5 DEF Matched
  <2>4. Mismatched => Mismatched'
    BY <1>1, <2>1, <2>2, Lengths DEF Mismatched
  <2>5. Unexpected => Unexpected'
    BY <1>1, <2>1, <2>2, Lengths DEF Unexpected
  <2>. QED
    BY <1>1, <2>1, <2>3, <2>4, <2>5 DEF VerdictInv, VerdictSound
<1>. QED
  BY <1>2, <1>3, MonitorCases

-----------------------------------------------------------------------------
(* The comparison *)

LEMMA MatchCounted ==
    ASSUME TypeOK, VerdictInv, NEW b \in BusStates, ScoreMatch(b)
    PROVE  VerdictInv'
<1>1. /\ at = "score" /\ at' \in {"phase", "drive"}
      /\ rx_fifo # << >> /\ ref_fifo # << >>
      /\ Accepts(Head(ref_fifo), Head(rx_fifo))
      /\ rx_fifo' = Tail(rx_fifo) /\ ref_fifo' = Tail(ref_fifo)
      /\ res_count' = res_count + 1
      /\ UNCHANGED <<drv_fifo, ref_count, err_count, err_total, history>>
  BY DEF ScoreMatch, Continue, scoreOnly
<1>2. expected' = expected /\ seen' = seen
  BY <1>1 DEF expected, seen
<1>3. Matched => Matched'
  <2>. SUFFICES ASSUME Matched PROVE Matched'
    OBVIOUS
  <2>1. rx_fifo' = << >> /\ Len(ref_fifo') = Len(ref_fifo) - 1
    BY <1>1, HeadsCompared
  <2>2. \A j \in 1 .. Len(ref_fifo') : ref_fifo'[j] = expected[res_count' + j]
    <3>. TAKE j \in 1 .. Len(ref_fifo')
    <3>1. j + 1 \in 1 .. Len(ref_fifo) /\ ref_fifo'[j] = ref_fifo[j + 1]
      BY <1>1, <2>1, HeadsCompared, Lengths
    <3>2. ref_fifo[j + 1] = expected[res_count + (j + 1)]
      BY <3>1 DEF Matched
    <3>3. res_count + (j + 1) = res_count' + j
      BY <1>1, Lengths
    <3>. QED
      BY <3>1, <3>2, <3>3
  <2>3. \A j \in 1 .. res_count' : Accepts(expected[j], seen[j])
    <3>1. Accepts(expected[res_count + 1], seen[res_count + 1])
      BY <1>1, HeadsCompared
    <3>2. \A j \in 1 .. res_count : Accepts(expected[j], seen[j])
      BY DEF Matched
    <3>3. \A j \in 1 .. (res_count + 1) : j \in 1 .. res_count \/ j = res_count + 1
      BY Lengths
    <3>. QED
      BY <1>1, <3>1, <3>2, <3>3
  <2>4. Len(seen) = res_count' + Len(rx_fifo')
    <3>1. Len(rx_fifo') = 0
      BY <2>1
    <3>2. Len(seen) = res_count + 1 /\ Len(seen) \in Nat /\ res_count' = res_count + 1
      BY <1>1, HeadsCompared, Lengths
    <3>. QED
      BY <3>1, <3>2
  <2>5. res_count' + Len(ref_fifo') = Len(expected)
    <3>1. res_count + Len(ref_fifo) = Len(expected)
      BY DEF Matched
    <3>2. res_count \in Nat /\ Len(ref_fifo) \in Nat
      BY Lengths
    <3>. QED
      BY <1>1, <2>1, <3>1, <3>2
  <2>6. err_count' = 0 /\ history'.driven + Len(drv_fifo') = history'.stimuli
    BY <1>1 DEF Matched
  <2>. QED
    BY <1>1, <1>2, <2>1, <2>2, <2>3, <2>4, <2>5, <2>6 DEF Matched
<1>4. Mismatched => Mismatched'
  BY <1>1, <1>2 DEF Mismatched
<1>5. ~Unexpected
  BY <1>1 DEF Unexpected
<1>. QED
  BY <1>1, <1>2, <1>3, <1>4, <1>5 DEF VerdictInv, VerdictSound

LEMMA MismatchCounted ==
    ASSUME TypeOK, VerdictInv, ScoreMismatch
    PROVE  VerdictInv'
<1>1. /\ at = "score" /\ at' = "failed"
      /\ rx_fifo # << >> /\ ref_fifo # << >>
      /\ ~Accepts(Head(ref_fifo), Head(rx_fifo))
      /\ err_count' = err_count + 1
      /\ UNCHANGED <<ref_count, err_total, history>>
  BY DEF ScoreMismatch, scoreOnly
<1>2. expected' = expected /\ seen' = seen
  BY <1>1 DEF expected, seen
<1>3. Matched => Mismatched'
  <2>. SUFFICES ASSUME Matched PROVE Mismatched'
    OBVIOUS
  <2>1. /\ ~Accepts(expected[res_count + 1], seen[res_count + 1])
        /\ res_count + 1 = Len(seen) /\ res_count + 1 <= Len(expected)
    BY <1>1, HeadsCompared
  <2>2. res_count + 1 \in 1 .. Len(seen) /\ err_count' > 0
    BY <1>1, <2>1, Lengths
  <2>. QED
    BY <1>2, <2>1, <2>2 DEF Mismatched
<1>4. Mismatched => Mismatched'
  BY <1>1, <1>2, Lengths DEF Mismatched
<1>5. ~Unexpected
  BY <1>1 DEF Unexpected
<1>. QED
  BY <1>1, <1>2, <1>3, <1>4, <1>5 DEF VerdictInv, VerdictSound

LEMMA UnexpectedKept ==
    ASSUME TypeOK, VerdictInv, ScoreUnexpected
    PROVE  VerdictInv'
<1>1. /\ at = "score" /\ at' = "failed"
      /\ rx_fifo # << >> /\ ref_fifo = << >>
      /\ UNCHANGED <<ref_fifo, rx_fifo, ref_count, err_count, err_total, history>>
  BY DEF ScoreUnexpected, scoreOnly
<1>2. expected' = expected /\ seen' = seen
  BY <1>1 DEF expected, seen
<1>3. Matched => Unexpected'
  <2>. SUFFICES ASSUME Matched PROVE Unexpected'
    OBVIOUS
  <2>1. /\ res_count + Len(ref_fifo) = Len(expected) /\ Len(seen) = res_count + Len(rx_fifo)
        /\ Len(rx_fifo) = 1 /\ Len(ref_fifo) = 0
    BY <1>1, Lengths DEF Matched
  <2>2. Len(seen) > Len(expected)
    BY <2>1, Lengths
  <2>. QED
    BY <1>1, <1>2, <2>2 DEF Unexpected
<1>4. Mismatched => Mismatched'
  BY <1>1, <1>2 DEF Mismatched
<1>5. Unexpected => Unexpected'
  BY <1>1, <1>2 DEF Unexpected
<1>. QED
  BY <1>1, <1>2, <1>3, <1>4, <1>5 DEF VerdictInv, VerdictSound

-----------------------------------------------------------------------------
(* After an error, and at the end *)

LEMMA ForwardedOnly ==
    ASSUME TypeOK, VerdictInv, PhaseFailed
    PROVE  VerdictInv'
<1>1. /\ at = "failed" /\ at' = "phase"
      /\ UNCHANGED <<rx_fifo, ref_count, err_count, err_total, history>>
  BY DEF PhaseFailed
<1>2. expected' = expected /\ seen' = seen
  BY <1>1 DEF expected, seen
<1>3. ~Matched
  BY <1>1 DEF Matched
<1>4. Mismatched => Mismatched'
  BY <1>1, <1>2 DEF Mismatched
<1>5. Unexpected => Unexpected'
  <2>. SUFFICES ASSUME Unexpected PROVE Unexpected'
    OBVIOUS
  <2>1. ref_fifo = << >> /\ ref_fifo \in Seq(Transactions) /\ phase_num + 1 \in Nat
    BY DEF Unexpected, TypeOK
  <2>2. /\ From(ref_fifo, phase_num + 1) \in Seq(Transactions)
        /\ Len(From(ref_fifo, phase_num + 1)) <= Len(ref_fifo)
    BY <2>1, FromQueue
  <2>3. From(ref_fifo, phase_num + 1) = << >>
    <3>1. Len(ref_fifo) = 0
      BY <2>1
    <3>. QED
      BY <2>2, <3>1, EmptySeq, LenProperties
  <2>4. ref_fifo' = ref_fifo \/ ref_fifo' = From(ref_fifo, phase_num + 1)
    BY DEF PhaseFailed
  <2>. QED
    BY <1>1, <1>2, <2>1, <2>3, <2>4 DEF Unexpected
<1>. QED
  BY <1>1, <1>2, <1>3, <1>4, <1>5 DEF VerdictInv, VerdictSound

LEMMA VerdictGiven ==
    ASSUME TypeOK, VerdictInv, EndTest
    PROVE  VerdictInv'
<1>1. /\ at = "phase" /\ at' = "done"
      /\ UNCHANGED <<ref_count, history>>
      /\ err_total = 0 /\ ref_count = Len(expected)
  BY DEF EndTest, VerdictInv
<1>2. err_total' = err_total + One(err_count = 0 /\ drv_fifo # << >>)
         + (IF err_count # 0 THEN err_count
            ELSE One(rx_fifo # << >>) + One(res_count # ref_count \/ ref_fifo # << >>))
  BY DEF EndTest
<1>. DEFINE Right == /\ Len(seen) = Len(expected)
                     /\ \A j \in 1 .. Len(seen) : Accepts(expected[j], seen[j])
                     /\ history.driven = history.stimuli
<1>3. err_total' = 0 <=> Right
  <2>1. CASE Matched
    <3>1. /\ err_count = 0 /\ rx_fifo = << >> /\ Len(seen) = res_count
          /\ \A j \in 1 .. res_count : Accepts(expected[j], seen[j])
          /\ res_count + Len(ref_fifo) = Len(expected)
          /\ history.driven + Len(drv_fifo) = history.stimuli
      BY <1>1, <2>1, Lengths DEF Matched
    <3>2. err_total' = One(drv_fifo # << >>)
                         + One(res_count # ref_count \/ ref_fifo # << >>)
      BY <1>1, <1>2, <3>1 DEF One
    <3>3. err_total' = 0 <=> drv_fifo = << >> /\ res_count = ref_count /\ ref_fifo = << >>
      BY <3>2 DEF One
    <3>4. Right <=> Len(seen) = Len(expected) /\ history.driven = history.stimuli
      BY <3>1
    <3>5. /\ history.driven = history.stimuli <=> drv_fifo = << >>
          /\ Len(seen) = Len(expected) <=> res_count = ref_count /\ ref_fifo = << >>
      BY <1>1, <3>1, Lengths
    <3>. QED
      BY <3>3, <3>4, <3>5
  <2>2. CASE Mismatched
    <3>1. err_count > 0 /\ err_count \in Nat
      BY <2>2, Lengths DEF Mismatched
    <3>2. err_total' = err_count
      BY <1>1, <1>2, <3>1 DEF One
    <3>3. ~Right
      BY <2>2 DEF Mismatched
    <3>. QED
      BY <3>1, <3>2, <3>3
  <2>3. CASE Unexpected
    <3>1. rx_fifo # << >> /\ Len(seen) > Len(expected)
      BY <2>3 DEF Unexpected
    <3>2. ~Right
      BY <3>1, Lengths
    <3>3. err_total' # 0
      BY <1>1, <1>2, <3>1, Lengths DEF One
    <3>. QED
      BY <3>2, <3>3
  <2>. QED
    BY <1>1, <2>1, <2>2, <2>3 DEF VerdictInv
<1>4. VerdictSound'
  BY <1>1, <1>3 DEF VerdictSound, expected, seen
<1>5. ref_count' = Len(expected')
  BY <1>1 DEF expected
<1>. QED
  BY <1>1, <1>4, <1>5 DEF VerdictInv

-----------------------------------------------------------------------------

LEMMA InitVerdict == BenchInit => VerdictInv
<1>. SUFFICES ASSUME BenchInit PROVE VerdictInv
  OBVIOUS
<1>1. /\ at = "begin" /\ rx_fifo = << >> /\ res_count = 0 /\ err_count = 0 /\ err_total = 0
      /\ expected = ref_fifo /\ seen = << >>
      /\ history.driven = 0 /\ history.stimuli = Len(drv_fifo)
      /\ Len(ref_fifo) \in Nat /\ Len(drv_fifo) \in Nat
  BY DEF BenchInit, expected, seen
<1>2. Matched
  BY <1>1 DEF Matched
<1>. QED
  BY <1>1, <1>2 DEF VerdictInv, VerdictSound

LEMMA NextVerdict == TypeOK /\ VerdictInv /\ [BenchNext]_benchVars => VerdictInv'
<1>. SUFFICES ASSUME TypeOK, VerdictInv, [BenchNext]_benchVars PROVE VerdictInv'
  OBVIOUS
<1>1. CASE StartTest
  <2>1. /\ at = "begin" /\ at' = "phase" /\ err_count' = 0 /\ ref_count' = Len(ref_fifo)
        /\ UNCHANGED <<ref_fifo, drv_fifo, rx_fifo, res_count, err_total, history>>
    BY <1>1 DEF StartTest
  <2>2. Matched /\ res_count = 0 /\ err_total = 0
    BY <2>1 DEF VerdictInv
  <2>3. Len(ref_fifo) = Len(expected)
    BY <2>2, Lengths DEF Matched
  <2>4. Matched'
    BY <2>1, <2>2 DEF Matched, expected, seen
  <2>. QED
    BY <2>1, <2>2, <2>3, <2>4 DEF VerdictInv, VerdictSound, expected
<1>2. ASSUME NEW k \in Nat, StartPhase(k) PROVE VerdictInv'
  <2>1. /\ at = "phase" /\ at' = "drive"
        /\ UNCHANGED <<ref_fifo, drv_fifo, rx_fifo, res_count, ref_count, err_count, err_total,
                       history>>
    BY <1>2 DEF StartPhase
  <2>. QED
    BY <2>1, NothingCompared
<1>3. ASSUME NEW b \in BusStates, DriverMain(b) PROVE VerdictInv'
  BY <1>3, StimulusCounted
<1>4. ASSUME NEW b \in BusStates, MonitorMain(b) PROVE VerdictInv'
  BY <1>4, TransactionSeen
<1>5. ASSUME NEW b \in BusStates, ScoreNothing(b) PROVE VerdictInv'
  <2>1. /\ at = "score" /\ at' \in {"phase", "drive"} /\ rx_fifo = << >>
        /\ UNCHANGED <<ref_fifo, drv_fifo, rx_fifo, res_count, ref_count, err_count, err_total,
                       history>>
    BY <1>5 DEF ScoreNothing, Continue, scoreOnly
  <2>. QED
    BY <2>1, NothingCompared
<1>6. ASSUME NEW b \in BusStates, ScoreMatch(b) PROVE VerdictInv'
  BY <1>6, MatchCounted
<1>7. CASE ScoreUnexpected
  BY <1>7, UnexpectedKept
<1>8. CASE ScoreMismatch
  BY <1>8, MismatchCounted
<1>9. CASE PhaseFailed
  BY <1>9, ForwardedOnly
<1>10. CASE EndTest
  BY <1>10, VerdictGiven
<1>11. CASE UNCHANGED benchVars
  <2>1. VerdictInv' <=> VerdictInv
    BY <1>11 DEF benchVars, VerdictInv, VerdictSound, Matched, Mismatched, Unexpected,
                 expected, seen
  <2>. QED
    BY <2>1
<1>. QED
  BY <1>1, <1>2, <1>3, <1>4, <1>5, <1>6, <1>7, <1>8, <1>9, <1>10, <1>11 DEF BenchNext

\* The verdict of every test is right.
THEOREM BenchVerdict == BenchSpec => []VerdictSound
<1>1. VerdictInv => VerdictSound
  BY DEF VerdictInv
<1>. QED
  BY <1>1, BenchInitType, BenchNextType, InitVerdict, NextVerdict, PTL DEF BenchSpec
=============================================================================
