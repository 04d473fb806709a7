---------------------------- MODULE MCSecureHeap ----------------------------
(* Two goroutines: one reads the counter while the other tears down.        *)
EXTENDS SecureHeap
=============================================================================
