----------------------------- MODULE MCGpuFilter -----------------------------
(***************************************************************************)
(* Two predictions on two blocks of one thread, the least that lets one    *)
(* block count before the other one resets the counter.                    *)
(***************************************************************************)
EXTENDS GpuFilter
==============================================================================
