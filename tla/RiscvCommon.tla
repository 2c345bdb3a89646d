---------------------------- MODULE RiscvCommon -----------------------------
(***************************************************************************)
(* The parameters the RISC-V testbench shares with the core: common.h and  *)
(* risc_pkg.sv.                                                            *)
(***************************************************************************)
EXTENDS Integers

CONSTANT DMEM_DEPTH     \* bytes of the data memory, from address 0 on

ASSUME DmemAssumption == DMEM_DEPTH \in Nat

DATA_MEMORY_DEPTH == DMEM_DEPTH
TRAP_BASE_ADDRESS == 988
REGFILE_A0 == 1
REGFILE_A1 == 2

\* Time: half a clock, and how long before an edge the monitor samples.
CLK_PHASE == 40
SETUP_TIME == 3
=============================================================================
