--------------------------- MODULE MCBatchScheduler ---------------------------
(***************************************************************************)
(* Four requests in batches of two, two buffers: a batch can form while    *)
(* another runs, a third has to wait for a buffer with mutex_ held, and    *)
(* two full batches can be queued when the destructor starts.  One stage   *)
(* may throw, and its input buffer is then lost.  MCBatchPostCopies has    *)
(* one buffer and batches of one, so that the third batch takes an output  *)
(* buffer that was released twice.                                         *)
(***************************************************************************)
EXTENDS BatchScheduler
==============================================================================
