--------------------------- MODULE UartRegsProofs ---------------------------
(***************************************************************************)
(* Theorems about the register block, for FIFOs of any depth, any set of   *)
(* received words and any values written to the registers.                 *)
(***************************************************************************)
EXTENDS UartRegs, SequenceTheorems, TLAPS

\* A cycle of the bus with its choices named: the word that arrives, what an
\* empty FIFO shows, and whether the transmitter pulls.
CycleOf(kind, arr, junk, pull) ==
    /\ arr # NoWord => wait = 0 /\ kind # "RES"
    /\ pull => ~tx_empty /\ kind # "RES"
    /\ lsr' = LineStatus(kind, arr, junk)
    /\ post_lsr_rd' = (kind = "LSR")
    /\ rxf' = RxQueue(kind, arr)
    /\ txn' = TxQueue(kind, pull)
    /\ rx_done' = rx_ready(arr)
    /\ rd_uart' = rbr_rd(kind)
    /\ iir' = Identify
    /\ Observe(kind, arr, pull)

\* What an access leaves in the registers that the bus writes.
Written(kind) ==
    /\ kind \in {"NONE", "LSR", "RBR", "THR"} => fcr' = SelfClear(kind)
    /\ kind = "RES" => fcr' = FcrReset
    /\ fcr' = SelfClear(kind) \/ fcr' \in FcrWrites \/ fcr' = FcrReset
    /\ ier' = ier \/ ier' \in IerWrites \/ ier' = IerReset
    /\ kind = "NONE" => ier' = ier
    /\ dlab' \in {dlab, ~dlab, FALSE}

LEMMA CycleIsOf ==
    ASSUME NEW kind \in Kinds, Cycle(kind)
    PROVE  \E arr \in Words \cup {NoWord}, junk \in Words, pull \in BOOLEAN :
              CycleOf(kind, arr, junk, pull)
<1>1. PICK arr \in (IF wait = 0 /\ kind # "RES" THEN Words ELSE {}) \cup {NoWord},
           junk \in Words, pull \in BOOLEAN :
        /\ pull => ~tx_empty /\ kind # "RES"
        /\ lsr' = LineStatus(kind, arr, junk)
        /\ post_lsr_rd' = (kind = "LSR")
        /\ rxf' = RxQueue(kind, arr)
        /\ txn' = TxQueue(kind, pull)
        /\ rx_done' = rx_ready(arr)
        /\ rd_uart' = rbr_rd(kind)
        /\ iir' = Identify
        /\ Observe(kind, arr, pull)
  BY Zenon DEF Cycle
<1>2. arr \in Words \cup {NoWord} /\ (arr # NoWord => wait = 0 /\ kind # "RES")
  BY <1>1
<1>. QED BY <1>1, <1>2, Zenon DEF CycleOf

\* The accesses are cycles of the bus with a kind each.
LEMMA NextIsCycle ==
    ASSUME Next
    PROVE  \E kind \in Kinds, arr \in Words \cup {NoWord}, junk \in Words,
              pull \in BOOLEAN :
              CycleOf(kind, arr, junk, pull) /\ Written(kind) /\ ModeKept
<1>. SUFFICES \E kind \in Kinds : Cycle(kind) /\ Written(kind)
  BY CycleIsOf, Zenon DEF Next
<1>1. CASE Idle
  BY <1>1 DEF Idle, Written, Kinds
<1>2. CASE ReadLSR
  BY <1>2 DEF ReadLSR, Written, Kinds
<1>3. CASE ReadRBR
  BY <1>3 DEF ReadRBR, Written, Kinds
<1>4. CASE WriteTHR
  BY <1>4 DEF WriteTHR, Written, Kinds
<1>5. CASE WriteFCR
  BY <1>5 DEF WriteFCR, Written, Kinds
<1>6. CASE WriteIER
  BY <1>6 DEF WriteIER, Written, Kinds
<1>7. CASE WriteLCR
  BY <1>7 DEF WriteLCR, Written, Kinds
<1>8. CASE MasterReset
  BY <1>8 DEF MasterReset, Written, Kinds
<1>. QED BY <1>1, <1>2, <1>3, <1>4, <1>5, <1>6, <1>7, <1>8 DEF Next, Accesses

\* A loss is reported: the invariant that is inductive.  The read that clears
\* OE has shown it, so nothing is unreported right after an LSR read.
LossInv == LossReported /\ (post_lsr_rd => ~unreported)

LEMMA LossStep == LossInv /\ [Next]_vars => LossInv'
<1> SUFFICES ASSUME LossInv, [Next]_vars PROVE LossInv'
  OBVIOUS
<1>1. CASE Next
  <2>1. PICK kind \in Kinds, arr \in Words \cup {NoWord}, junk \in Words,
             pull \in BOOLEAN : CycleOf(kind, arr, junk, pull)
    BY <1>1, NextIsCycle
  <2>2. /\ lsr' = LineStatus(kind, arr, junk)
        /\ post_lsr_rd' = (kind = "LSR")
        /\ Observe(kind, arr, pull)
        /\ kind = "RES" => arr = NoWord
    BY <2>1 DEF CycleOf
  <2>3. lsr'.OE = ((rx_full /\ rx_ready(arr))
                   \/ (lsr.OE /\ ~(kind = "RES" \/ post_lsr_rd)))
    BY <2>2 DEF LineStatus
  <2>4. unreported' = (kind # "RES" /\ ~(kind = "LSR" /\ lsr'.OE)
                       /\ (unreported \/ (rx_ready(arr) /\ rx_full)))
    BY <2>2 DEF Observe
  <2>5. kind = "RES" => ~rx_ready(arr)
    BY <2>2 DEF rx_ready
  <2>. QED BY <2>2, <2>3, <2>4, <2>5, Zenon DEF LossInv, LossReported
<1>2. CASE UNCHANGED vars
  BY <1>2 DEF LossInv, LossReported, vars, hwVars, ghosts
<1>. QED BY <1>1, <1>2

\* OE reports every loss and nothing but losses: the properties of the
\* overrun flag that MCUartRegs checks, for every depth and every spacing.
THEOREM RegsLossReported == Spec => []LossReported
<1>1. Init => LossInv
  BY DEF Init, LossInv, LossReported
<1>2. LossInv => LossReported
  BY DEF LossInv
<1>. QED BY <1>1, <1>2, LossStep, PTL DEF Spec

\* A write that was polled for finds the FIFO empty and no clear pending.
PollInv ==
    /\ PolledWriteAccepted
    /\ ready => txn = 0 /\ ~fcr.txclr
    /\ fcr \in [fifoen : BOOLEAN, rxclr : BOOLEAN, txclr : BOOLEAN]

LEMMA FcrTyped ==
    ASSUME fcr \in [fifoen : BOOLEAN, rxclr : BOOLEAN, txclr : BOOLEAN], Next
    PROVE  fcr' \in [fifoen : BOOLEAN, rxclr : BOOLEAN, txclr : BOOLEAN]
<1>1. \A kind : SelfClear(kind) \in [fifoen : BOOLEAN, rxclr : BOOLEAN, txclr : BOOLEAN]
  BY DEF SelfClear
<1>2. FcrReset \in [fifoen : BOOLEAN, rxclr : BOOLEAN, txclr : BOOLEAN]
  BY DEF FcrReset
<1>3. PICK kind \in Kinds : Written(kind)
  BY NextIsCycle, Zenon
<1>. QED BY <1>1, <1>2, <1>3, RegsAssumption DEF Written

LEMMA PollStep == PollInv /\ [Next]_vars => PollInv'
<1> SUFFICES ASSUME PollInv, [Next]_vars PROVE PollInv'
  OBVIOUS
<1>1. CASE Next
  <2>0. PICK kind \in Kinds, arr \in Words \cup {NoWord}, junk \in Words,
             pull \in BOOLEAN : CycleOf(kind, arr, junk, pull) /\ Written(kind)
    BY <1>1, NextIsCycle
  <2>1. kind \in {"NONE", "LSR", "RBR", "THR"} => fcr' = SelfClear(kind)
    BY <2>0 DEF Written
  <2>2. /\ lsr' = LineStatus(kind, arr, junk)
        /\ txn' = TxQueue(kind, pull)
        /\ Observe(kind, arr, pull)
    BY <2>0 DEF CycleOf
  <2>3. ready => (thr_wr(kind) => tx_accepts(kind))
    BY RegsAssumption DEF PollInv, tx_accepts, tx_full, tx_empty
  <2>4. PolledWriteAccepted'
    <3>1. refused' = (refused \/ (thr_wr(kind) /\ ready /\ ~tx_accepts(kind)))
      BY <2>2 DEF Observe
    <3>. QED BY <2>3, <3>1, Zenon DEF PollInv, PolledWriteAccepted
  <2>5. ready' => kind \in {"LSR", "NONE", "RBR"} /\ txn = 0
    <3>1. kind = "LSR" /\ lsr'.TF => txn = 0
      BY <2>2 DEF LineStatus, tx_empty
    <3>2. ready' => (kind = "LSR" /\ lsr'.TF) \/ (kind \in {"NONE", "RBR"} /\ ready)
      BY <2>2 DEF Observe
    <3>. QED BY <3>1, <3>2, Zenon DEF PollInv
  <2>6. ready' => txn' = 0
    <3>1. kind \in {"LSR", "NONE", "RBR"} => ~tx_accepts(kind)
      BY DEF tx_accepts, thr_wr
    <3>. QED BY <2>2, <2>5, <3>1 DEF TxQueue, tx_empty
  <2>7. ready' => ~fcr'.txclr
    <3>1. \A k \in {"LSR", "NONE", "RBR"} : ~SelfClear(k).txclr
      BY DEF SelfClear, Writes, PollInv
    <3>. QED BY <2>1, <2>5, <3>1
  <2>. QED BY <1>1, <2>4, <2>6, <2>7, FcrTyped DEF PollInv
<1>2. CASE UNCHANGED vars
  BY <1>2 DEF PollInv, PolledWriteAccepted, vars, hwVars, ghosts
<1>. QED BY <1>1, <1>2

\* A THR write that follows an LSR read with TF is never refused: what tx_byte
\* relies on, for every depth of the transmit FIFO and every use of FCR.
THEOREM RegsPolledWriteAccepted == Spec => []PolledWriteAccepted
<1>1. Init => PollInv
  BY DEF Init, PollInv, PolledWriteAccepted, FcrReset
<1>2. PollInv => PolledWriteAccepted
  BY DEF PollInv
<1>. QED BY <1>1, <1>2, PollStep, PTL DEF Spec

-----------------------------------------------------------------------------
(* Types, the errors told and the interrupt *)

\* What an edge of the FIFOs makes of the receive FIFO: a word is pushed
\* behind the others when there is room, only a read takes the head.
LEMMA RxQueueStep ==
    ASSUME rxf \in Seq(Words), NEW kind, NEW arr \in Words \cup {NoWord}
    PROVE  LET q == RxQueue(kind, arr)
           IN  /\ q \in Seq(Words)
               /\ Len(q) <= Len(rxf) + 1
               /\ rx_full => Len(q) <= Len(rxf)
               /\ rx_full /\ rbr_rd(kind) /\ Len(rxf) <= 1 => q = << >>
               /\ q # << >> => kind # "RES" /\ ~fcr.rxclr
               /\ q # << >> /\ rxf = << >> => rx_ready(arr)
               /\ q # << >> /\ rxf # << >> /\ ~rbr_rd(kind) => Head(q) = Head(rxf)
               /\ kind = "NONE" /\ ~rx_ready(arr) /\ ~fcr.rxclr => q = rxf
<1>. DEFINE left == IF rbr_rd(kind) /\ ~rx_empty THEN Tail(rxf) ELSE rxf
<1>. DEFINE q == RxQueue(kind, arr)
<1>1. /\ left \in Seq(Words) /\ Len(left) \in Nat /\ Len(rxf) \in Nat
      /\ Len(left) <= Len(rxf)
      /\ rbr_rd(kind) /\ Len(rxf) <= 1 => left = << >>
      /\ ~rbr_rd(kind) => left = rxf
      /\ rxf = << >> => left = << >>
  <2>1. CASE rbr_rd(kind) /\ ~rx_empty
    <3>1. /\ Tail(rxf) \in Seq(Words) /\ Len(Tail(rxf)) = Len(rxf) - 1
          /\ Len(Tail(rxf)) \in Nat /\ Len(rxf) \in Nat
      BY <2>1, HeadTailProperties, LenProperties DEF rx_empty
    <3>2. Len(rxf) <= 1 => Tail(rxf) = << >>
      BY <3>1, EmptySeq
    <3>. QED BY <2>1, <3>1, <3>2 DEF rx_empty
  <2>2. CASE ~(rbr_rd(kind) /\ ~rx_empty)
    <3>1. left = rxf /\ Len(rxf) \in Nat
      BY <2>2, LenProperties
    <3>. QED BY <2>2, <3>1 DEF rx_empty
  <2>. QED BY <2>1, <2>2
<1>2. CASE kind = "RES" \/ fcr.rxclr
  <2>1. q = << >>
    BY <1>2 DEF RxQueue
  <2>. QED BY <1>1, <1>2, <2>1, EmptySeq
<1>3. CASE kind # "RES" /\ ~fcr.rxclr /\ rx_ready(arr) /\ ~rx_full
  <2>1. q = Append(left, arr)
    BY <1>3 DEF RxQueue
  <2>2. /\ q \in Seq(Words) /\ q # << >> /\ Len(q) = Len(left) + 1
        /\ Head(q) = IF left = << >> THEN arr ELSE Head(left)
    <3>1. arr \in Words
      BY <1>3 DEF rx_ready
    <3>. HIDE DEF left
    <3>. QED BY <1>1, <2>1, <3>1, AppendProperties, HeadTailAppend
  <2>. QED BY <1>1, <1>3, <2>2
<1>4. CASE kind # "RES" /\ ~fcr.rxclr /\ ~(rx_ready(arr) /\ ~rx_full)
  <2>1. q = left
    BY <1>4 DEF RxQueue
  <2>2. kind = "NONE" => ~rbr_rd(kind)
    BY DEF rbr_rd
  <2>. QED BY <1>1, <1>4, <2>1, <2>2
<1>. QED BY <1>2, <1>3, <1>4

\* FCR holds three bits, whatever was written to it and cleared of it.
LEMMA FcrSetIs ==
    ASSUME TypeOK
    PROVE  fcr \in [fifoen : BOOLEAN, rxclr : BOOLEAN, txclr : BOOLEAN]
<1>1. FcrReset \in [fifoen : BOOLEAN, rxclr : BOOLEAN, txclr : BOOLEAN]
  BY DEF FcrReset
<1>2. \A f \in [fifoen : BOOLEAN, rxclr : {FALSE}, txclr : {FALSE}] :
         f \in [fifoen : BOOLEAN, rxclr : BOOLEAN, txclr : BOOLEAN]
  OBVIOUS
<1>. QED BY <1>1, <1>2, RegsAssumption DEF TypeOK

\* Outside FIFO mode the receive FIFO holds one word at most: the mode changes
\* only while it is empty.
TypeInv == TypeOK /\ (~fcr.fifoen => Len(rxf) <= 1)

LEMMA TypeInit == Init => TypeInv
<1>. SUFFICES ASSUME Init PROVE TypeInv
  OBVIOUS
<1>1. rxf \in Seq(Words) /\ Len(rxf) = 0
  BY EmptySeq DEF Init
<1>2. txn \in 0 .. TxDepth /\ wait \in 0 .. Spacing /\ quiet \in 0 .. 2
      /\ Len(rxf) <= RxDepth /\ Len(rxf) <= 1
  BY <1>1, RegsAssumption DEF Init
<1>3. fcr = FcrReset /\ ier = IerReset /\ told = {} /\ iir \in Interrupts /\ bus \in Kinds
  BY DEF Init, Interrupts, Kinds
<1>4. lsr \in [DR : BOOLEAN, PE : BOOLEAN, FE : BOOLEAN, OE : BOOLEAN, TF : BOOLEAN]
  BY DEF Init
<1>5. {dlab, post_lsr_rd, rx_done, rd_uart, unreported, ready, refused} \subseteq BOOLEAN
  BY DEF Init
<1>. QED BY <1>1, <1>2, <1>3, <1>4, <1>5 DEF TypeInv, TypeOK

LEMMA TypeStep == TypeInv /\ [Next]_vars => TypeInv'
<1>. SUFFICES ASSUME TypeInv, [Next]_vars PROVE TypeInv'
  OBVIOUS
<1>1. CASE Next
  <2>1. PICK kind \in Kinds, arr \in Words \cup {NoWord}, junk \in Words,
             pull \in BOOLEAN :
             CycleOf(kind, arr, junk, pull) /\ Written(kind) /\ ModeKept
    BY <1>1, NextIsCycle
  <2>2. rxf \in Seq(Words) /\ Len(rxf) \in Nat /\ Len(rxf) <= RxDepth
    BY LenProperties DEF TypeInv, TypeOK
  <2>3. /\ rxf' \in Seq(Words) /\ Len(rxf') \in Nat
        /\ Len(rxf') <= Len(rxf) + 1
        /\ rx_full => Len(rxf') <= Len(rxf)
        /\ rxf' # << >> => kind # "RES"
    BY <2>1, <2>2, RxQueueStep, LenProperties DEF CycleOf
  <2>4. Len(rxf') <= RxDepth
    BY <2>2, <2>3, RegsAssumption, EmptySeq DEF rx_full, rx_empty
  <2>5. ~fcr'.fifoen => Len(rxf') <= 1
    <3>1. CASE fcr'.fifoen = fcr.fifoen
      BY <2>2, <2>3, <3>1, EmptySeq DEF TypeInv, rx_full, rx_empty
    <3>2. CASE rx_empty
      BY <2>3, <3>2, EmptySeq DEF rx_empty
    <3>3. CASE bus' = "RES"
      BY <2>1, <2>3, <3>3, EmptySeq DEF CycleOf, Observe
    <3>. QED BY <2>1, <3>1, <3>2, <3>3 DEF ModeKept
  <2>6. txn' \in 0 .. TxDepth
    <3>1. txn \in 0 .. TxDepth /\ txn' = TxQueue(kind, pull)
      BY <2>1 DEF TypeInv, TypeOK, CycleOf
    <3>. QED BY <3>1, RegsAssumption DEF TxQueue, tx_accepts, tx_full, tx_empty
  <2>7. fcr' \in FcrWrites \cup {FcrReset} \cup
                 [fifoen : BOOLEAN, rxclr : {FALSE}, txclr : {FALSE}]
    <3>1. fcr \in [fifoen : BOOLEAN, rxclr : BOOLEAN, txclr : BOOLEAN]
      BY FcrSetIs DEF TypeInv
    <3>2. SelfClear(kind) \in {fcr} \cup [fifoen : BOOLEAN, rxclr : {FALSE}, txclr : {FALSE}]
      BY <3>1 DEF SelfClear
    <3>. QED BY <2>1, <3>2 DEF Written, TypeInv, TypeOK
  <2>8. ier' \in IerWrites \cup {IerReset} /\ dlab' \in BOOLEAN
    BY <2>1 DEF Written, TypeInv, TypeOK
  <2>9. lsr' \in [DR : BOOLEAN, PE : BOOLEAN, FE : BOOLEAN, OE : BOOLEAN, TF : BOOLEAN]
    <3>. DEFINE head == IF rx_empty THEN junk ELSE Head(rxf)
    <3>1. head.perr \in BOOLEAN /\ head.ferr \in BOOLEAN
      <4>1. head \in Words
        BY <2>2, HeadTailProperties DEF rx_empty
      <4>. QED BY <4>1, RegsAssumption
    <3>2. lsr \in [DR : BOOLEAN, PE : BOOLEAN, FE : BOOLEAN, OE : BOOLEAN, TF : BOOLEAN]
          /\ {post_lsr_rd, rx_done} \subseteq BOOLEAN
      BY DEF TypeInv, TypeOK
    <3>3. lsr' = LineStatus(kind, arr, junk)
      BY <2>1 DEF CycleOf
    <3>. HIDE DEF head
    <3>. QED BY <3>1, <3>2, <3>3 DEF LineStatus, head, rx_ready
  <2>10. iir' \in Interrupts /\ bus' \in Kinds
    BY <2>1 DEF CycleOf, Observe, Identify, Interrupts
  <2>11. {post_lsr_rd', rx_done', rd_uart', unreported', ready', refused'} \subseteq BOOLEAN
    BY <2>1 DEF CycleOf, Observe, rx_ready, rbr_rd, TypeInv, TypeOK
  <2>12. told' \subseteq {"DR", "PE", "FE"}
    BY <2>1 DEF CycleOf, Observe, TypeInv, TypeOK
  <2>13. wait' \in 0 .. Spacing /\ quiet' \in 0 .. 2
    BY <2>1, RegsAssumption DEF CycleOf, Observe, TypeInv, TypeOK
  <2>. QED
    BY <2>3, <2>4, <2>5, <2>6, <2>7, <2>8, <2>9, <2>10, <2>11, <2>12, <2>13
    DEF TypeInv, TypeOK
<1>2. CASE UNCHANGED vars
  BY <1>2 DEF TypeInv, TypeOK, vars, hwVars, ghosts
<1>. QED BY <1>1, <1>2

\* The registers and FIFOs stay within their widths, for FIFOs of any depth:
\* with the mode changes the driver makes, neither FIFO overflows.
THEOREM RegsTypeCorrect == Spec => []TypeOK
<1>1. TypeInv => TypeOK
  BY DEF TypeInv
<1>. QED BY <1>1, TypeInit, TypeStep, PTL DEF Spec

\* One error bit of the word at the head, err, against its flag in LSR: what
\* the CPU has been told is true, with DR it has been told all, and what it has
\* not been told is still in the flag, unless the flag is about to be reloaded.
ToldFlag(name, flag, err) ==
    /\ name \in told => err
    /\ "DR" \in told /\ err => name \in told
    /\ ~rx_available => /\ flag => err
                        /\ err => name \in told \/ (flag /\ ~post_lsr_rd)

ToldInv == ~rx_empty => /\ ToldFlag("PE", lsr.PE, Head(rxf).perr)
                        /\ ToldFlag("FE", lsr.FE, Head(rxf).ferr)

LEMMA ToldStep == TypeInv /\ ToldInv /\ [Next]_vars => ToldInv'
<1>. SUFFICES ASSUME TypeInv, ToldInv, [Next]_vars, ~rx_empty'
              PROVE  /\ ToldFlag("PE", lsr.PE, Head(rxf).perr)'
                     /\ ToldFlag("FE", lsr.FE, Head(rxf).ferr)'
  BY DEF ToldInv
<1>1. CASE Next
  <2>1. PICK kind \in Kinds, arr \in Words \cup {NoWord}, junk \in Words,
             pull \in BOOLEAN :
             CycleOf(kind, arr, junk, pull) /\ Written(kind) /\ ModeKept
    BY <1>1, NextIsCycle
  <2>2. rxf \in Seq(Words) /\ Len(rxf) \in Nat /\ (~fcr.fifoen => Len(rxf) <= 1)
    BY LenProperties DEF TypeInv, TypeOK
  <2>3. /\ rxf' # << >> /\ kind # "RES" /\ ~fcr.rxclr
        /\ rx_full /\ rbr_rd(kind) => Len(rxf) > 1
        /\ rx_empty => rx_ready(arr)
        /\ ~rx_empty /\ ~rbr_rd(kind) => Head(rxf') = Head(rxf)
    BY <2>1, <2>2, RxQueueStep DEF CycleOf, rx_empty
  <2>4. rx_done' = rx_ready(arr) /\ rd_uart' = rbr_rd(kind)
    BY <2>1 DEF CycleOf
  <2>5. CASE rx_empty \/ rbr_rd(kind)
    <3>1. told' = {}
      BY <2>1, <2>5 DEF CycleOf, Observe
    <3>2. rx_available'
      <4>1. CASE rx_empty
        BY <2>3, <2>4, <4>1 DEF rx_available
      <4>2. CASE ~rx_empty /\ rbr_rd(kind)
        <5>1. fcr.fifoen
          BY <2>2, <2>3, <4>2 DEF rx_full
        <5>2. kind = "RBR" /\ bus' = kind
          BY <2>1, <4>2 DEF rbr_rd, CycleOf, Observe
        <5>3. fcr'.fifoen
          BY <2>1, <4>2, <5>1, <5>2 DEF ModeKept
        <5>. QED BY <2>4, <4>2, <5>3 DEF rx_available
      <4>. QED BY <2>5, <4>1, <4>2
    <3>. QED BY <3>1, <3>2 DEF ToldFlag
  <2>6. CASE ~rx_empty /\ ~rbr_rd(kind)
    <3>1. Head(rxf') = Head(rxf)
      BY <2>3, <2>6
    <3>2. told' = IF kind = "LSR"
                  THEN told \cup {f \in {"DR", "PE", "FE"} : lsr'[f]} ELSE told
      BY <2>1, <2>3, <2>6 DEF CycleOf, Observe
    <3>3. /\ lsr'.PE = IF rx_available THEN Head(rxf).perr ELSE lsr.PE /\ ~post_lsr_rd
          /\ lsr'.FE = IF rx_available THEN Head(rxf).ferr ELSE lsr.FE /\ ~post_lsr_rd
          /\ post_lsr_rd' = (kind = "LSR")
      BY <2>1, <2>3, <2>6 DEF CycleOf, LineStatus
    <3>4. /\ "PE" \in told' <=> "PE" \in told \/ (kind = "LSR" /\ lsr'.PE)
          /\ "FE" \in told' <=> "FE" \in told \/ (kind = "LSR" /\ lsr'.FE)
          /\ "DR" \in told' => "DR" \in told \/ kind = "LSR"
      BY <3>2
    <3>5. /\ ToldFlag("PE", lsr.PE, Head(rxf).perr)
          /\ ToldFlag("FE", lsr.FE, Head(rxf).ferr)
      BY <2>6 DEF ToldInv
    <3>6. ToldFlag("PE", lsr.PE, Head(rxf).perr)'
      BY <3>1, <3>3, <3>4, <3>5, Zenon DEF ToldFlag
    <3>7. ToldFlag("FE", lsr.FE, Head(rxf).ferr)'
      BY <3>1, <3>3, <3>4, <3>5, Zenon DEF ToldFlag
    <3>. QED BY <3>6, <3>7
  <2>. QED BY <2>5, <2>6
<1>2. CASE UNCHANGED vars
  BY <1>2 DEF ToldInv, ToldFlag, rx_available, rx_empty, vars, hwVars, ghosts
<1>. QED BY <1>1, <1>2

\* A CPU that has seen DR has been told the errors of exactly the word that is
\* at the head, for FIFOs of any depth in both modes.
THEOREM RegsErrorTold == Spec => []ErrorTold
<1>1. Init => TypeInv /\ ToldInv
  BY TypeInit DEF Init, ToldInv, rx_empty
<1>2. TypeInv /\ ToldInv => ErrorTold
  BY Zenon DEF ToldInv, ToldFlag, ErrorTold
<1>. QED BY <1>1, <1>2, TypeStep, ToldStep, PTL DEF Spec

\* After a quiet cycle nothing is under way in the delays between the FIFO,
\* LSR and IIR; after two the interrupt is that of the state.
QuietInv ==
    /\ quiet >= 1 => /\ ~post_lsr_rd /\ ~rx_done /\ ~rd_uart
                     /\ ~fcr.rxclr /\ ~fcr.txclr
    /\ InterruptSettles

LEMMA QuietStep == TypeInv /\ LossInv /\ QuietInv /\ [Next]_vars => QuietInv'
<1>. SUFFICES ASSUME TypeInv, LossInv, QuietInv, [Next]_vars PROVE QuietInv'
  OBVIOUS
<1>1. CASE Next
  <2>1. PICK kind \in Kinds, arr \in Words \cup {NoWord}, junk \in Words,
             pull \in BOOLEAN :
             CycleOf(kind, arr, junk, pull) /\ Written(kind) /\ ModeKept
    BY <1>1, NextIsCycle
  <2>2. quiet \in 0 .. 2
    BY DEF TypeInv, TypeOK
  <2>3. /\ quiet' >= 1 => kind = "NONE" /\ ~rx_ready(arr) /\ ~pull
        /\ quiet' = 2 => quiet >= 1
    BY <2>1, <2>2 DEF CycleOf, Observe
  <2>4. ASSUME quiet' >= 1
        PROVE  /\ ~post_lsr_rd' /\ ~rx_done' /\ ~rd_uart'
               /\ ~fcr'.rxclr /\ ~fcr'.txclr
    <3>1. fcr' = [fcr EXCEPT !.rxclr = FALSE, !.txclr = FALSE]
      BY <2>1, <2>3, <2>4 DEF Written, SelfClear, Writes
    <3>2. fcr \in [fifoen : BOOLEAN, rxclr : BOOLEAN, txclr : BOOLEAN]
      BY FcrSetIs DEF TypeInv
    <3>. QED BY <2>1, <2>3, <2>4, <3>1, <3>2 DEF CycleOf, rbr_rd
  <2>5. ASSUME quiet' = 2, fcr'.fifoen
        PROVE  InterruptSettles'
    <3>1. /\ kind = "NONE" /\ ~rx_ready(arr) /\ ~pull
          /\ ~post_lsr_rd /\ ~rx_done /\ ~rd_uart /\ ~fcr.rxclr /\ ~fcr.txclr
      BY <2>2, <2>3, <2>5 DEF QuietInv
    <3>2. fcr \in [fifoen : BOOLEAN, rxclr : BOOLEAN, txclr : BOOLEAN]
      BY FcrSetIs DEF TypeInv
    <3>3. fcr.fifoen /\ ier' = ier
      BY <2>1, <2>5, <3>1, <3>2 DEF Written, SelfClear, Writes
    <3>4. rxf' = rxf
      BY <2>1, <3>1, RxQueueStep DEF CycleOf, TypeInv, TypeOK
    <3>5. txn' = txn
      <4>1. ~tx_accepts(kind)
        BY <3>1 DEF tx_accepts, thr_wr
      <4>. QED BY <2>1, <3>1, <4>1 DEF CycleOf, TxQueue, TypeInv, TypeOK
    <3>6. lsr'.DR = ~rx_empty /\ lsr'.OE = lsr.OE /\ ~post_lsr_rd'
      BY <2>1, <3>1, <3>3 DEF CycleOf, LineStatus, TypeInv, TypeOK
    <3>7. unreported' = unreported /\ unreported = lsr.OE
      BY <2>1, <3>1 DEF CycleOf, Observe, LossInv, LossReported, TypeInv, TypeOK
    <3>8. iir' = IF ier'.elsi /\ (unreported' \/ lsr'.PE \/ lsr'.FE) THEN "RLS"
                 ELSE IF ier'.erbfi /\ ~rx_empty' THEN "RDA"
                 ELSE IF ier'.etbei /\ tx_empty' THEN "THRE"
                 ELSE "NONE"
      BY <2>1, <3>3, <3>4, <3>5, <3>6, <3>7 DEF CycleOf, Identify, rx_empty, tx_empty
    <3>. QED BY <3>8 DEF InterruptSettles
  <2>. QED BY <2>4, <2>5 DEF QuietInv, InterruptSettles
<1>2. CASE UNCHANGED vars
  BY <1>2 DEF QuietInv, InterruptSettles, rx_empty, tx_empty, vars, hwVars, ghosts
<1>. QED BY <1>1, <1>2

\* In FIFO mode the interrupt settles on the enabled cause of highest priority
\* after two quiet cycles, for FIFOs of any depth and every setting of IER.
THEOREM RegsInterruptSettles == Spec => []InterruptSettles
<1>1. Init => TypeInv /\ LossInv /\ QuietInv
  BY TypeInit DEF Init, LossInv, LossReported, QuietInv, InterruptSettles
<1>2. QuietInv => InterruptSettles
  BY DEF QuietInv
<1>. QED BY <1>1, <1>2, TypeStep, LossStep, QuietStep, PTL DEF Spec
=============================================================================
