----------------------------- MODULE MCRecovery -----------------------------
(* Two buffers of at most two lines, and a sync every two modifications.   *)
EXTENDS Recovery

(* Once the recovery file has been given up, nothing is promised of it any more. *)
NotGivenUp == ~rec_err
=============================================================================
