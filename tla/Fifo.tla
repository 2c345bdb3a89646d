-------------------------------- MODULE Fifo --------------------------------
(***************************************************************************)
(* modules/fifo.v: the synchronous first-word-fall-through FIFO that the   *)
(* UART uses for both directions.  One step is one rising edge of clk; the *)
(* inputs sampled at the edge are the parameters of the step.              *)
(*                                                                         *)
(* The code keeps five registers that must agree with each other: the two  *)
(* pointers, a precomputed successor of each, and an independent count     *)
(* that alone drives empty and full.                                       *)
(***************************************************************************)
EXTENDS Integers

CONSTANTS Data,     \* the words, 2^DATA_WIDTH of them in the code
          Depth     \* 2^ADDR_WIDTH

ASSUME DepthAssumption == Depth \in Nat /\ Depth >= 2  \* ADDR_WIDTH >= 1
ASSUME DataAssumption == Data # {}

VARIABLES mem,      \* reg [DATA_WIDTH-1:0] mem [2**ADDR_WIDTH-1:0]
          w_ptr, r_ptr, next_w, next_r,
          count     \* reg [ADDR_WIDTH:0]: one bit wider than a pointer

vars == <<mem, w_ptr, r_ptr, next_w, next_r, count>>

Addr == 0 .. Depth - 1

\* Mutant: the pointer register is one bit too wide.
IncNoWrap(p) == p + 1

\* An ADDR_WIDTH-bit register plus one.
Inc(p) == IF p = Depth - 1 THEN 0 ELSE p + 1

\* An (ADDR_WIDTH+1)-bit register holding the sum c, -1 <= c <= 2*Depth.
CountWrap(c) == IF c < 0 THEN 2 * Depth - 1
                ELSE IF c = 2 * Depth THEN 0 ELSE c

empty == count = 0
full  == count >= Depth     \* bit ADDR_WIDTH of count
dout  == mem[r_ptr]         \* the head is offered before it is pulled

\* Mutant: a push while full never passes, even when a pull makes room.
wenNoPass(push, pull) == push /\ ~full

\* Mutant: the write enable ignores full.
wenUnguarded(push, pull) == push

wen(push, pull) == push /\ (~full \/ pull)
ren(pull)       == pull /\ ~empty

\* Mutant: a push that meets a pull of the empty FIFO is not counted.
count_addNoPass(push, pull) ==
    IF pull /\ ~push /\ ~empty THEN -1
    ELSE IF push /\ ~full /\ ~pull THEN 1
    ELSE 0

\* The casez over {pull, push, empty, full}: a pull alone takes one, a push
\* adds one unless a pull takes one at the same edge; an empty FIFO has none
\* to take.
count_add(push, pull) ==
    IF pull /\ ~push /\ ~empty THEN -1
    ELSE IF push /\ ~full /\ (pull => empty) THEN 1
    ELSE 0

\* Reset leaves the memory as it is; at power-up it holds anything.
ResetState == /\ w_ptr' = 0
              /\ r_ptr' = 0
              /\ next_w' = Inc(0)
              /\ next_r' = Inc(0)
              /\ count' = 0
              /\ UNCHANGED mem

Init == /\ mem \in [Addr -> Data]
        /\ w_ptr = 0 /\ r_ptr = 0
        /\ next_w = Inc(0) /\ next_r = Inc(0)
        /\ count = 0

Write(push, pull, din) ==
    IF wen(push, pull)
    THEN /\ mem' = [mem EXCEPT ![w_ptr] = din]
         /\ w_ptr' = next_w
         /\ next_w' = Inc(next_w)
    ELSE UNCHANGED <<mem, w_ptr, next_w>>

Read(pull) ==
    IF ren(pull)
    THEN /\ r_ptr' = next_r
         /\ next_r' = Inc(next_r)
    ELSE UNCHANGED <<r_ptr, next_r>>

Clock(push, pull, din) ==
    /\ Write(push, pull, din)
    /\ Read(pull)
    /\ count' = CountWrap(count + count_add(push, pull))

Next == \/ ResetState
        \/ \E push, pull \in BOOLEAN, din \in Data : Clock(push, pull, din)

Spec == Init /\ [][Next]_vars
-----------------------------------------------------------------------------
(* Properties *)

\* Every register stays within its width.
TypeOK == /\ mem \in [Addr -> Data]
          /\ w_ptr \in Addr /\ r_ptr \in Addr
          /\ next_w \in Addr /\ next_r \in Addr
          /\ count \in 0 .. 2 * Depth - 1

\* The slot that holds the i-th oldest word, i = 0 for the head.
Slot(i) == IF r_ptr + i < Depth THEN r_ptr + i ELSE r_ptr + i - Depth

\* The five registers tell one story (fifo.v: the count is kept by a casez of
\* its own, the pointers by wen and ren): the precomputed successors are
\* successors, the count never passes the depth, and the write pointer is
\* exactly count slots ahead of the read pointer.
PointersAgree ==
    /\ next_w = Inc(w_ptr)
    /\ next_r = Inc(r_ptr)
    /\ count <= Depth
    /\ w_ptr = IF r_ptr + count < Depth THEN r_ptr + count
                                        ELSE r_ptr + count - Depth

\* The words between the two pointers, oldest first.
Contents == [i \in 1 .. count |-> mem[Slot(i - 1)]]

Queue == INSTANCE FifoQueue WITH queue <- Contents

\* The FIFO is the queue of the scoreboard (tb_uvm_fifo/scoreboard.sv), edge
\* for edge: nothing is lost, invented, duplicated or reordered, a push while
\* full is accepted exactly when a pull makes room at the same edge.
ImplementsQueue == Queue!Spec

\* First-word fall-through: without a reset, the word on dout of a non-empty
\* FIFO may change only at an edge where it is consumed (the read pointer
\* moves), whatever is pushed meanwhile, also into the slot of the head when a
\* full FIFO is pushed and pulled at once.
HeadStable ==
    [][(~empty /\ r_ptr' = r_ptr /\ count' # 0) => dout' = dout]_vars
=============================================================================
