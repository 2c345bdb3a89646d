------------------------------ MODULE UartRegs ------------------------------
(***************************************************************************)
(* The register block of UART/uart_top.sv with the FIFO glue of uart.sv,   *)
(* as the CPU sees it: line status, interrupt identification, FIFO and     *)
(* line control.  A step is one bus cycle of clk: the falling edge, at     *)
(* which the line status is updated and after which a read is captured,    *)
(* and then the rising edge, at which everything else is clocked (the      *)
(* order in uart_verilated.cpp and behind uart_apb.sv).                    *)
(*                                                                         *)
(* The receiver and the transmitter below (UartRx, UartTx) appear as what  *)
(* they do to the FIFOs: a word arrives (rx_ready), a word is pulled       *)
(* (tx_ready).  Words differ only in their error bits.                     *)
(***************************************************************************)
EXTENDS Integers, Sequences

CONSTANTS RxDepth,  \* 2^UART_FIFO_ADDR_W
          TxDepth,
          Spacing,  \* cycles between two arrivals, at least; a frame has 112
          Words,    \* what the receiver delivers: [perr, ferr]
          FcrWrites, IerWrites, \* the values the CPU writes
          NoWord

ASSUME RegsAssumption ==
    /\ RxDepth \in Nat \ {0} /\ TxDepth \in Nat \ {0}
    /\ Spacing \in Nat /\ Spacing >= 3
    /\ Words \subseteq [perr : BOOLEAN, ferr : BOOLEAN]
    /\ NoWord \notin Words
    /\ FcrWrites \subseteq [fifoen : BOOLEAN, rxclr : BOOLEAN, txclr : BOOLEAN]
    /\ IerWrites \subseteq [erbfi : BOOLEAN, etbei : BOOLEAN, elsi : BOOLEAN]

VARIABLES rxf,              \* the receive FIFO
          txn,              \* the number of words in the transmit FIFO
          fcr, ier, dlab,   \* registers; dlab is LCR bit 7
          lsr,              \* the line status register
          iir,              \* the interrupt that is identified
          post_lsr_rd, rx_done, rd_uart,    \* one-cycle delays
          wait,             \* cycles until a word may arrive again
          bus,              \* what the CPU did in the last cycle
          unreported,       \* a word was lost since the CPU last read an overrun
          told,             \* what LSR reads said of the word at the head
          ready,            \* the last access was an LSR read that showed TF
          refused,          \* a THR write was not accepted although ready
          quiet             \* cycles in which nothing happened, up to 2

hwVars == <<rxf, txn, fcr, ier, dlab, lsr, iir, post_lsr_rd, rx_done, rd_uart>>
ghosts == <<wait, bus, unreported, told, ready, refused, quiet>>
vars == <<hwVars, ghosts>>

Interrupts == {"NONE", "RLS", "RDA", "THRE"}
Kinds == {"NONE", "LSR", "RBR", "THR", "FCR", "IER", "LCR", "RES"}
Writes == {"THR", "FCR", "IER", "LCR"}

rx_empty == rxf = << >>
tx_empty == txn = 0
rx_full == IF fcr.fifoen THEN Len(rxf) >= RxDepth ELSE ~rx_empty
tx_full == IF fcr.fifoen THEN txn >= TxDepth ELSE ~tx_empty

rbr_rd(kind) == kind = "RBR" /\ ~dlab
thr_wr(kind) == kind = "THR" /\ ~dlab
rx_ready(arr) == arr # NoWord

\* Mutant: the error flags are not reloaded when a read uncovers a new head.
rx_availableOnce == rx_done

rx_available == rx_done \/ (fcr.fifoen /\ rd_uart /\ ~rx_empty)

\* Mutant: clearing OE wins over setting it.
LineStatusClears(kind, arr, junk) ==
    LET res     == kind = "RES"
        rd_data == IF rx_empty THEN junk ELSE Head(rxf)
    IN  [DR |-> IF fcr.fifoen THEN ~rx_empty
                ELSE ~(res \/ rbr_rd(kind)) /\ (rx_done \/ lsr.DR),
         PE |-> IF rx_available THEN rd_data.perr
                ELSE lsr.PE /\ ~(res \/ post_lsr_rd),
         FE |-> IF rx_available THEN rd_data.ferr
                ELSE lsr.FE /\ ~(res \/ post_lsr_rd),
         OE |-> ((rx_full /\ rx_ready(arr)) \/ lsr.OE) /\ ~(res \/ post_lsr_rd),
         TF |-> res \/ tx_empty]

\* The falling edge.  rd_data is the head of the FIFO, or what an empty one
\* still shows (junk).
LineStatus(kind, arr, junk) ==
    LET res     == kind = "RES"
        rd_data == IF rx_empty THEN junk ELSE Head(rxf)
    IN  [DR |-> IF fcr.fifoen THEN ~rx_empty
                ELSE ~(res \/ rbr_rd(kind)) /\ (rx_done \/ lsr.DR),
         PE |-> IF rx_available THEN rd_data.perr
                ELSE lsr.PE /\ ~(res \/ post_lsr_rd),
         FE |-> IF rx_available THEN rd_data.ferr
                ELSE lsr.FE /\ ~(res \/ post_lsr_rd),
         OE |-> (rx_full /\ rx_ready(arr))
                \/ (lsr.OE /\ ~(res \/ post_lsr_rd)),
         TF |-> res \/ tx_empty]

\* Mutant: received data before the line status.
IdentifyDataFirst ==
    IF ier.erbfi /\ lsr'.DR THEN "RDA"
    ELSE IF ier.elsi /\ (lsr'.OE \/ lsr'.PE \/ lsr'.FE) /\ ~post_lsr_rd' THEN "RLS"
    ELSE IF ier.etbei /\ tx_empty THEN "THRE"
    ELSE "NONE"

\* The rising edge: the interrupt of highest priority, from the status of the
\* falling edge.
Identify == IF ier.elsi /\ (lsr'.OE \/ lsr'.PE \/ lsr'.FE) /\ ~post_lsr_rd'
            THEN "RLS"
            ELSE IF ier.erbfi /\ lsr'.DR THEN "RDA"
            ELSE IF ier.etbei /\ tx_empty THEN "THRE"
            ELSE "NONE"

\* Mutant: the receiver pushes into a full FIFO.
RxQueueUnguarded(kind, arr) ==
    LET left == IF rbr_rd(kind) /\ ~rx_empty THEN Tail(rxf) ELSE rxf
    IN  IF kind = "RES" \/ fcr.rxclr THEN << >>
        ELSE IF rx_ready(arr) THEN Append(left, arr) ELSE left

\* The rising edge of the FIFOs: a clear wins over everything else.
RxQueue(kind, arr) ==
    LET left == IF rbr_rd(kind) /\ ~rx_empty THEN Tail(rxf) ELSE rxf
    IN  IF kind = "RES" \/ fcr.rxclr THEN << >>
        ELSE IF rx_ready(arr) /\ ~rx_full THEN Append(left, arr) ELSE left

tx_accepts(kind) == thr_wr(kind) /\ ~tx_full /\ ~fcr.txclr
TxQueue(kind, pull) ==
    IF kind = "RES" \/ fcr.txclr THEN 0
    ELSE txn - (IF pull /\ ~tx_empty THEN 1 ELSE 0)
             + (IF tx_accepts(kind) THEN 1 ELSE 0)

\* Mutant: the clear bits stay.
SelfClearNever(kind) == fcr

\* The self-clearing bits of FCR: a cycle without a write clears them.
SelfClear(kind) == IF kind \in Writes THEN fcr
                   ELSE [fcr EXCEPT !.rxclr = FALSE, !.txclr = FALSE]

\* What the accesses amount to: the ghost variables.
Observe(kind, arr, pull) ==
    /\ bus' = kind
    /\ wait' = IF rx_ready(arr) THEN Spacing
               ELSE IF wait > 0 THEN wait - 1 ELSE 0
    /\ unreported' = (kind # "RES"
                      /\ ~(kind = "LSR" /\ lsr'.OE)
                      /\ (unreported \/ (rx_ready(arr) /\ rx_full)))
    /\ told' = IF kind = "RES" \/ fcr.rxclr \/ rx_empty \/ rbr_rd(kind) THEN {}
               ELSE IF kind = "LSR" THEN told \cup {f \in {"DR", "PE", "FE"} : lsr'[f]}
               ELSE told
    /\ ready' = ((kind = "LSR" /\ lsr'.TF) \/ (kind \in {"NONE", "RBR"} /\ ready))
    /\ refused' = (refused \/ (thr_wr(kind) /\ ready /\ ~tx_accepts(kind)))
    /\ quiet' = IF kind = "NONE" /\ ~rx_ready(arr) /\ ~pull
                THEN IF quiet < 2 THEN quiet + 1 ELSE 2
                ELSE 0

\* A cycle in which the bus shows kind, arr arrives and the transmitter pulls.
Cycle(kind) ==
    \E arr \in (IF wait = 0 /\ kind # "RES" THEN Words ELSE {}) \cup {NoWord},
       junk \in Words, pull \in BOOLEAN :
        /\ rx_empty \/ junk = CHOOSE w \in Words : TRUE   \* one choice suffices
        /\ pull => ~tx_empty /\ kind # "RES"
        /\ lsr' = LineStatus(kind, arr, junk)
        /\ post_lsr_rd' = (kind = "LSR")
        /\ rxf' = RxQueue(kind, arr)
        /\ txn' = TxQueue(kind, pull)
        /\ rx_done' = rx_ready(arr)
        /\ rd_uart' = rbr_rd(kind)
        /\ iir' = Identify
        /\ Observe(kind, arr, pull)

\* No access, or the read of a register without side effects.
Idle == Cycle("NONE") /\ fcr' = SelfClear("NONE") /\ UNCHANGED <<ier, dlab>>

ReadLSR == Cycle("LSR") /\ fcr' = SelfClear("LSR") /\ UNCHANGED <<ier, dlab>>

ReadRBR == Cycle("RBR") /\ fcr' = SelfClear("RBR") /\ UNCHANGED <<ier, dlab>>

WriteTHR == Cycle("THR") /\ fcr' = SelfClear("THR") /\ UNCHANGED <<ier, dlab>>

WriteFCR == Cycle("FCR") /\ fcr' \in FcrWrites /\ UNCHANGED <<ier, dlab>>

\* A write to address 1: IER, and with DLAB set also the divisor latch DLM;
\* the code writes IER in both cases.
WriteIER == /\ Cycle("IER")
            /\ ier' \in IerWrites
            /\ fcr' = SelfClear("IER") /\ UNCHANGED dlab

\* set_baud_rate and get_divisor set DLAB and clear it again.
WriteLCR == Cycle("LCR") /\ dlab' = ~dlab /\ fcr' = SelfClear("LCR") /\ UNCHANGED ier

FcrReset == [fifoen |-> FALSE, rxclr |-> FALSE, txclr |-> FALSE]
IerReset == [erbfi |-> FALSE, etbei |-> FALSE, elsi |-> FALSE]

\* One cycle of master reset.
MasterReset == Cycle("RES") /\ fcr' = FcrReset /\ ier' = IerReset /\ dlab' = FALSE

\* After a reset long enough to clear what the first cycle leaves.
Init ==
    /\ rxf = << >> /\ txn = 0
    /\ fcr = FcrReset /\ ier = IerReset /\ dlab = FALSE
    /\ lsr = [DR |-> FALSE, PE |-> FALSE, FE |-> FALSE, OE |-> FALSE, TF |-> TRUE]
    /\ iir = "NONE"
    /\ post_lsr_rd = FALSE /\ rx_done = FALSE /\ rd_uart = FALSE
    /\ wait = 0 /\ bus = "NONE" /\ unreported = FALSE /\ told = {}
    /\ ready = FALSE /\ refused = FALSE /\ quiet = 0

\* The mode is changed while the receive FIFO is empty.
ModeKept == fcr'.fifoen = fcr.fifoen \/ (rx_empty /\ ~rx_done) \/ bus' = "RES"

Accesses == Idle \/ ReadLSR \/ ReadRBR \/ WriteTHR \/ WriteFCR \/ WriteIER
            \/ WriteLCR \/ MasterReset

Next == Accesses /\ ModeKept

Spec == Init /\ [][Next]_vars
-----------------------------------------------------------------------------
(* Properties *)

\* The registers and the FIFOs stay within their widths.
TypeOK ==
    /\ rxf \in Seq(Words) /\ Len(rxf) <= RxDepth
    /\ txn \in 0 .. TxDepth
    /\ fcr \in FcrWrites \cup {FcrReset} \cup
               [fifoen : BOOLEAN, rxclr : {FALSE}, txclr : {FALSE}]
    /\ ier \in IerWrites \cup {IerReset}
    /\ lsr \in [DR : BOOLEAN, PE : BOOLEAN, FE : BOOLEAN, OE : BOOLEAN, TF : BOOLEAN]
    /\ iir \in Interrupts /\ bus \in Kinds
    /\ {dlab, post_lsr_rd, rx_done, rd_uart, unreported, ready, refused} \subseteq BOOLEAN
    /\ told \subseteq {"DR", "PE", "FE"}
    /\ wait \in 0 .. Spacing /\ quiet \in 0 .. 2

\* No loss goes unreported and no loss is invented: OE stays set from the
\* moment a word is lost to the LSR read that shows it, also when the word is
\* lost in the very cycle in which an earlier overrun is being cleared, and it
\* is set for no other reason.
LossReported == /\ unreported => lsr.OE
                /\ lsr.OE => unreported \/ post_lsr_rd

\* A CPU that polls LSR until DR is set before it reads RBR has seen the
\* parity and the framing error of exactly the word it is about to read,
\* however arrivals, reads of other words and LSR clears interleave.
ErrorTold ==
    ~rx_empty /\ "DR" \in told => /\ Head(rxf).perr <=> "PE" \in told
                                  /\ Head(rxf).ferr <=> "FE" \in told

\* tx_byte: a THR write that follows an LSR read with TF is accepted by the
\* FIFO, whatever clears and mode changes went before.
PolledWriteAccepted == ~refused

\* In FIFO mode the interrupt settles on the enabled cause of highest priority
\* two quiet cycles after the last event: none is lost in the delays between
\* the FIFO, LSR and IIR, and none stays behind.
InterruptSettles ==
    quiet = 2 /\ fcr.fifoen =>
        LET rls  == ier.elsi /\ (unreported \/ lsr.PE \/ lsr.FE)
            rda  == ier.erbfi /\ ~rx_empty
            thre == ier.etbei /\ tx_empty
        IN  /\ iir = "RLS"  <=> rls
            /\ iir = "RDA"  <=> rda /\ ~rls
            /\ iir = "THRE" <=> thre /\ ~rda /\ ~rls
=============================================================================
