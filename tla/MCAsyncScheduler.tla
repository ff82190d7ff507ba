--------------------------- MODULE MCAsyncScheduler ---------------------------
(***************************************************************************)
(* Two workers a stage, three requests: two post workers can both keep an  *)
(* output buffer while the third request needs one, and one Run may throw. *)
(* MCAsyncPostThrow and MCAsyncDestroy have a runner that copies.          *)
(***************************************************************************)
EXTENDS AsyncScheduler
==============================================================================
