----------------------------- MODULE MCThreadPool -----------------------------
(***************************************************************************)
(* Two workers, two threads that call enqueue, three jobs: a job can queue *)
(* behind two running ones, the notifications of two clients can cross,    *)
(* and the destructor can overtake either.                                 *)
(***************************************************************************)
EXTENDS ThreadPool
==============================================================================
