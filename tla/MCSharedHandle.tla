--------------------------- MODULE MCSharedHandle ---------------------------
(* Three goroutines share one handle: enough for a reader in flight, a      *)
(* Close waiting for it, and a reader parked behind that Close or a second  *)
(* Close queued behind the first.                                           *)
EXTENDS SharedHandle
=============================================================================
