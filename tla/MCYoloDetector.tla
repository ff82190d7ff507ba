---------------------------- MODULE MCYoloDetector ----------------------------
(***************************************************************************)
(* Three frames, two buffers in each pool, two calls at a time in each     *)
(* stage.  One image buffer and one pair of filter buffers may be lost;    *)
(* then one is left, and every later call has to wait for it.  In          *)
(* MCYoloStreams the batch is smaller than the number of buffers.          *)
(***************************************************************************)
EXTENDS YoloDetector
==============================================================================
