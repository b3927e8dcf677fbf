----------------------------- MODULE MCAsyncQueue -----------------------------
(* AsyncQueue for TLC. *)
EXTENDS AsyncQueue
=============================================================================
