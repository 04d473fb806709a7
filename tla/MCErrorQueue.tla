---------------------------- MODULE MCErrorQueue ----------------------------
(* Two goroutines that share two threads.                                   *)
EXTENDS ErrorQueue
=============================================================================
