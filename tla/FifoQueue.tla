----------------------------- MODULE FifoQueue -----------------------------
(***************************************************************************)
(* What the synchronous FIFO promises its users: a bounded queue of words. *)
(* It is the reference model of the UVM scoreboard (a SystemVerilog queue  *)
(* that is popped first and pushed second), one step per clock edge.       *)
(***************************************************************************)
EXTENDS Integers, Sequences

CONSTANTS Data,     \* the words
          Depth     \* FIFO_DEPTH

VARIABLES queue     \* the scoreboard's mem[$]

\* The pull half of the scoreboard step: an empty queue has nothing to pop.
AfterPull(q, pull) == IF pull /\ q # << >> THEN Tail(q) ELSE q

\* The push half: it sees the room the pull has made; a word that finds no
\* room is dropped.
AfterPush(q, push, din) ==
    IF push /\ Len(q) < Depth THEN Append(q, din) ELSE q

Init == queue = << >>

Flush == queue' = << >>

Clock(push, pull, din) == queue' = AfterPush(AfterPull(queue, pull), push, din)

Next == \/ Flush
        \/ \E push, pull \in BOOLEAN, din \in Data : Clock(push, pull, din)

Spec == Init /\ [][Next]_queue
=============================================================================
