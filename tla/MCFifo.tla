------------------------------- MODULE MCFifo -------------------------------
(* Fifo with the values of MCFifo.cfg: four slots (two address bits) and    *)
(* three words, so that every slot can hold a word of its own kind and the  *)
(* pointers wrap at every fill level.                                       *)
EXTENDS Fifo
=============================================================================
